---- MODULE Spec2Model ----
(***************************************************************************)
(* A model of the typed cache facade (class Cache), the in-process memory  *)
(* adapter it talks to and the TTL-aware map engine behind the adapter.    *)
(*                                                                         *)
(* Strings that the code inspects or concatenates (prefixes, keys, glob    *)
(* patterns) are sequences of one-character strings; serialized payloads   *)
(* are opaque strings.  JavaScript values are records [t, v].              *)
(***************************************************************************)
EXTENDS Integers, Sequences, FiniteSets, TLC

\* ------------------------------------------------------------------ bounds

\* Largest number of facade calls started in one behaviour.
MaxOps == 2

\* Longest list handed to a batched operation (mset, mdel, mcached).
MaxLen == 2

\* ------------------------------------------------------- input universes

NoPrefix == << >>

PrefixA == <<"a">>

PrefixB == <<"b">>

PrefixAB == <<"a", ":", "b">>

\* The Cache instances built over the one adapter: a prefixed cache next to
\* the root cache, two flat namespaces, and a namespace next to its
\* versioned sub-namespace (the README's 'x' and 'x:1').
Configs == { {NoPrefix, PrefixB}, {PrefixA, PrefixB}, {PrefixA, PrefixAB} }

KeyK == <<"k">>

KeyBK == <<"b", ":", "k">>

Keys == {KeyK, KeyBK}

\* A path-like key, as single-key calls get it.
KeyPath == <<"x", "/", "y">>
PathKeys == Keys \cup {KeyPath}

\* JavaScript values held in the cache.
JsString(s) == [t |-> "string", v |-> s]

JsNaN == [t |-> "number", v |-> "NaN"]

JsNull == [t |-> "null", v |-> "null"]

JsUndefined == [t |-> "undefined", v |-> "undefined"]

\* An array slot that was never assigned (new Array(n)).
JsHole == [t |-> "hole", v |-> "hole"]

StringValues == {JsString("x"), JsString("y")}

\* Values a caller stores or a producer returns.
Values == {JsString("x"), JsNaN}

\* The data items of an mcached call, by position.
DataItems == <<"d1", "d2", "d3", "d4">>

\* What the adapter answers for a key it does not hold.
Undefined == "undefined"

\* ----------------------------------------------------------- serialization

\* defaultSerialize: JSON.stringify.  A string is quoted; NaN and null both
\* become the text null.
defaultSerialize(value) ==
  CASE value.t = "string" -> "\"" \o value.v \o "\""
    [] value.t = "number" /\ value.v = "NaN" -> "null"
    [] value.t = "null" -> "null"

\* defaultDeserialize: JSON.parse.
defaultDeserialize(text) ==
  IF text = "null"
    THEN JsNull
    ELSE CHOOSE s \in StringValues : text = "\"" \o s.v \o "\""

\* ---------------------------------------------------------------------- ttl

TtlNumber(n) == [kind |-> "number", n |-> n, s |-> "", f |-> ""]

TtlString(s) == [kind |-> "string", n |-> 0, s |-> s, f |-> ""]

TtlFunction(f) == [kind |-> "function", n |-> 0, s |-> "", f |-> f]

\* The ms package throws on the empty string.
msThrows(s) == s = ""

\* The ms package on the duration strings used here; for a non-empty
\* string it does not recognise it returns undefined.
ms(s) ==
  CASE s = "1s" -> 1000
    [] s = "2s" -> 2000
    [] OTHER -> "undefined"

\* The TTL functions that throw: one always, one for every item but the
\* first.
ttlFunctionThrows(f, fnArgs) ==
  \/ f = "throws"
  \/ f = "throwsAfterFirst" /\ fnArgs[2] > 0

\* The TTL functions callers pass: one that looks at the value, one that
\* looks at the index, one that returns another function, one that
\* returns a function that throws, and what a function that may throw
\* returns when it does not.
callTtlFunction(f, fnArgs) ==
  CASE f = "byValue" ->
         IF fnArgs[1].t = "string" THEN TtlNumber(1000) ELSE TtlString("2s")
    [] f = "byIndex" ->
         IF fnArgs[2] = 0 THEN TtlNumber(1000) ELSE TtlString("2s")
    [] f = "nested" -> TtlFunction("byValue")
    [] f = "nestedThrows" -> TtlFunction("throws")
    [] f = "throwsAfterFirst" -> TtlNumber(1000)

\* ttlToMs throws: the TTL function, a function it returned or ms throws.
RECURSIVE ttlToMsThrows(_, _)
ttlToMsThrows(ttl, fnArgs) ==
  IF ttl.kind = "function"
    THEN \/ ttlFunctionThrows(ttl.f, fnArgs)
         \/ ttlToMsThrows(callTtlFunction(ttl.f, fnArgs), fnArgs)
    ELSE ttl.kind = "string" /\ msThrows(ttl.s)

\* A resolution that calls a TTL function once and does not look at what
\* kind of thing it returned.
ttlToMsNoRecursion(ttl, fnArgs) ==
  LET r == IF ttl.kind = "function" THEN callTtlFunction(ttl.f, fnArgs) ELSE ttl
  IN  IF r.kind = "number" THEN r.n
      ELSE IF r.kind = "string" THEN ms(r.s) ELSE 0

\* ttlToMs, when it does not throw.
RECURSIVE ttlToMs(_, _)
ttlToMs(ttl, fnArgs) ==
  IF ttl.kind = "function"
    THEN ttlToMs(callTtlFunction(ttl.f, fnArgs), fnArgs)
    ELSE IF ttl.kind = "number" THEN ttl.n ELSE ms(ttl.s)

\* What a call rejects with when ttlToMs threw.
TtlError == "the error ttlToMs threw"

\* TTL expressions for set and cached (the function receives the value).
TtlExprs1 == {TtlNumber(1000), TtlString("2s"), TtlFunction("nested")}

\* TTL expressions for mset and mcached (value and index).
TtlExprs2 == {TtlNumber(1000), TtlFunction("byValue"), TtlFunction("byIndex")}

\* --------------------------------------------------------------- the engine
\* The TTL-aware map: key -> [value, ttl].

engineGet(m, key) == IF key \in DOMAIN m THEN m[key].value ELSE Undefined

engineSet(m, key, value, ttl) ==
  [x \in DOMAIN m \cup {key} |->
     IF x = key THEN [value |-> value, ttl |-> ttl] ELSE m[x]]

engineDelete(m, key) == [x \in DOMAIN m \ {key} |-> m[x]]

engineHas(m, key) == key \in DOMAIN m

engineKeys(m) == DOMAIN m

engineClear(m) == << >>

\* A remaining TTL, or undefined for a key the map does not hold.
TtlOf(n) == [defined |-> TRUE, ms |-> n]

TtlUndefined == [defined |-> FALSE, ms |-> 0]

engineGetRemainingTTL(m, key) ==
  IF key \in DOMAIN m THEN TtlOf(m[key].ttl) ELSE TtlUndefined

\* ------------------------------------------------------------- glob matching
\* micromatch on the patterns used here: a star matches any run of
\* characters other than the slash, a question mark one such character,
\* every other character itself.

RECURSIVE globMatch(_, _)
globMatch(s, p) ==
  IF p = << >>
    THEN s = << >>
    ELSE IF Head(p) = "*"
      THEN \/ globMatch(s, Tail(p))
           \/ s # << >> /\ Head(s) # "/" /\ globMatch(Tail(s), p)
      ELSE /\ s # << >>
           /\ \/ Head(p) = "?" /\ Head(s) # "/"
              \/ Head(p) = Head(s)
           /\ globMatch(Tail(s), Tail(p))

micromatch(keys, pattern) == {k \in keys : globMatch(k, pattern)}

\* ------------------------------------------------------- MemoryCacheAdapter
\* Built without a backup saver: saveBackup returns at once.

adapterGet(m, key) == engineGet(m, key)

\* A batched get that answers every position with the first key's value.
adapterMgetFirstKey(m, keys) == [i \in 1..Len(keys) |-> engineGet(m, keys[1])]

adapterMget(m, keys) == [i \in 1..Len(keys) |-> engineGet(m, keys[i])]

adapterSet(m, key, value, ttlMs) == engineSet(m, key, value, ttlMs)

RECURSIVE adapterMset(_, _)
adapterMset(m, entries) ==
  IF entries = << >>
    THEN m
    ELSE adapterMset(
           engineSet(m, Head(entries)[1], Head(entries)[2], Head(entries)[3]),
           Tail(entries))

adapterDel(m, key) == engineDelete(m, key)

\* An mdel that deletes the first key only.
adapterMdelFirstKey(m, keys) ==
  IF keys = << >> THEN m ELSE engineDelete(m, Head(keys))

RECURSIVE adapterMdel(_, _)
adapterMdel(m, keys) ==
  IF keys = << >>
    THEN m
    ELSE adapterMdel(engineDelete(m, Head(keys)), Tail(keys))

\* A pdel that treats every pattern as the pattern *.
adapterPdelClearsAll(m, pattern) == engineClear(m)

adapterPdel(m, pattern) ==
  IF pattern = <<"*">>
    THEN engineClear(m)
    ELSE LET keysToDelete == micromatch(engineKeys(m), pattern)
         IN  [x \in DOMAIN m \ keysToDelete |-> m[x]]

adapterHas(m, key) == engineHas(m, key)

\* An mhas that is content with one key that exists.
adapterMhasAny(m, keys) == \E i \in 1..Len(keys) : engineHas(m, keys[i])

adapterMhas(m, keys) == \A i \in 1..Len(keys) : engineHas(m, keys[i])

adapterGetRemainingTtl(m, key) == engineGetRemainingTTL(m, key)

\* -------------------------------------------------------------------- Cache

\* A key computation that forgets the prefix.
getCacheKeyNoPrefix(prefix, key) == key

getCacheKey(prefix, key) ==
  IF prefix = << >> THEN key ELSE prefix \o <<":">> \o key

\* A get that hands out the stored text without deserializing it.
readResultRaw(res) == IF res = Undefined THEN JsUndefined ELSE JsString(res)

\* What Cache.get makes of the adapter's answer.
readResult(res) == IF res = Undefined THEN JsUndefined ELSE defaultDeserialize(res)

\* A miss test that never sees the cached value.
isMissAlways(res) == TRUE

\* cached and mcached: the adapter had nothing for the key.
isMiss(res) == res = Undefined

\* What Cache.get(key) returns when the engine holds m.
getOf(m, prefix, key) == readResult(adapterGet(m, getCacheKey(prefix, key)))

\* What Cache.has(key) returns when the engine holds m.
hasOf(m, prefix, key) == adapterHas(m, getCacheKey(prefix, key))

\* What Cache.getRemainingTtl(key) returns when the engine holds m.
getRemainingTtlOf(m, prefix, key) ==
  adapterGetRemainingTtl(m, getCacheKey(prefix, key))

\* An entry stored under the logical key instead of the storage key.
cachedEntryUnprefixed(cacheKey, key, value, ttl) ==
  <<key, defaultSerialize(value), ttlToMs(ttl, <<value>>)>>

\* cached: the entry stored for a produced value.
cachedEntry(cacheKey, key, value, ttl) ==
  <<cacheKey, defaultSerialize(value), ttlToMs(ttl, <<value>>)>>

\* An mget that never takes its short cut.
nothingRequestedNever(keys) == FALSE

\* mget: the list of keys is empty.
nothingRequested(keys) == Len(keys) = 0

\* keys.map((k) => this.getCacheKey(k))
cacheKeysOf(prefix, keys) == [i \in 1..Len(keys) |-> getCacheKey(prefix, keys[i])]

\* An mcached that takes every position for a miss.
missingIndicesOfAll(cachedResults) == [i \in 1..Len(cachedResults) |-> i]

\* mcached: the positions the batched get left unanswered, in order.
missingIndicesOf(cachedResults) ==
  SelectSeq([i \in 1..Len(cachedResults) |-> i],
            LAMBDA i : isMiss(cachedResults[i]))

\* mcached: the result array after the batched get (hits filled in).
hitsOf(cachedResults) ==
  [i \in 1..Len(cachedResults) |->
     IF isMiss(cachedResults[i]) THEN JsHole
     ELSE defaultDeserialize(cachedResults[i])]

\* An mcached without its early return.
allCachedNever(missingIndices) == FALSE

\* mcached: nothing missed, the call returns what it read.
allCached(missingIndices) == Len(missingIndices) = 0

\* mcached: missingIndices.map((index) => data[index])
missingDataOf(data, missingIndices) ==
  [j \in 1..Len(missingIndices) |-> data[missingIndices[j]]]

\* An arity check that only rejects answers that are too long.
arityTooMany(producedValues, missingData) == Len(producedValues) > Len(missingData)

\* mcached: the producer's answer does not fit the question.
arityMismatch(producedValues, missingData) == Len(producedValues) # Len(missingData)

\* A scatter that puts the j-th produced value at position j.
scatterByOutputIndex(toReturn, missingIndices, producedValues) ==
  [i \in 1..Len(toReturn) |->
     IF i <= Len(producedValues) THEN producedValues[i] ELSE toReturn[i]]

\* mcached: the produced values put at the positions that missed.
scatter(toReturn, missingIndices, producedValues) ==
  [i \in 1..Len(toReturn) |->
     IF \E index \in 1..Len(producedValues) : missingIndices[index] = i
       THEN producedValues[CHOOSE index \in 1..Len(producedValues) :
                             missingIndices[index] = i]
       ELSE toReturn[i]]

\* Entries keyed by the index in the producer's output instead of the
\* position that missed.
toStoreOfByOutputIndex(cacheKeys, missingIndices, producedValues, ttl) ==
  [index \in 1..Len(producedValues) |->
     <<cacheKeys[index],
       defaultSerialize(producedValues[index]),
       ttlToMs(ttl, <<producedValues[index], index - 1>>)>>]

\* Entries whose TTL function sees the position in the data instead of
\* the index in the producer's output.
toStoreOfTtlByDataIndex(cacheKeys, missingIndices, producedValues, ttl) ==
  [index \in 1..Len(producedValues) |->
     <<cacheKeys[missingIndices[index]],
       defaultSerialize(producedValues[index]),
       ttlToMs(ttl, <<producedValues[index], missingIndices[index] - 1>>)>>]

\* mcached: the entries of the one batched set; the TTL function sees the
\* value and its index in the producer's output.
toStoreOf(cacheKeys, missingIndices, producedValues, ttl) ==
  [index \in 1..Len(producedValues) |->
     <<cacheKeys[missingIndices[index]],
       defaultSerialize(producedValues[index]),
       ttlToMs(ttl, <<producedValues[index], index - 1>>)>>]

\* mset: one entry per item; the TTL function sees the item and its index.
msetEntries(prefix, items, keys, ttl) ==
  [i \in 1..Len(items) |->
     <<getCacheKey(prefix, keys[i]), defaultSerialize(items[i]),
       ttlToMs(ttl, <<items[i], i - 1>>)>>]

\* mset and mcached: the first item whose TTL cannot be resolved, or 0.
firstTtlThrow(items, ttl) ==
  IF \E i \in 1..Len(items) : ttlToMsThrows(ttl, <<items[i], i - 1>>)
    THEN CHOOSE i \in 1..Len(items) :
           /\ ttlToMsThrows(ttl, <<items[i], i - 1>>)
           /\ \A j \in 1..(i - 1) : ~ttlToMsThrows(ttl, <<items[j], j - 1>>)
    ELSE 0

\* mset: the argument lists of the makeKey calls made for the first n
\* items; each item's key is computed for getCacheKey and once more for
\* serialize.
msetMakeKeyCalls(items, n) ==
  [j \in 1..(2 * n) |-> <<items[(j + 1) \div 2], ((j + 1) \div 2) - 1>>]

\* mcached: data.map((d, i) => makeKey(d, i))
mcachedMakeKeyCalls(data, n) == [i \in 1..n |-> <<data[i], i - 1>>]

ArityError == "The producer did not return exactly as many results as inputs were given."

\* ------------------------------------------------------------ observation

\* One adapter call as the facade issued it.
AdapterCall(m, keys, entries) == [m |-> m, keys |-> keys, entries |-> entries]

\* An event that reports a hit whatever the adapter returned.
ReadEventAlwaysHit(key, hit, operation) ==
  [key |-> key, hit |-> TRUE, operation |-> operation]

\* One 'read' event.
ReadEvent(key, hit, operation) == [key |-> key, hit |-> hit, operation |-> operation]

\* No TTL expression: the call takes none.
NoTtl == [kind |-> "none", n |-> 0, s |-> "", f |-> ""]

\* What a facade call looked like from outside: the arguments, how it ended
\* ("ok", "error", or "pending" while its producer runs), what it returned,
\* the adapter calls it made, the argument lists its producer was invoked
\* with, what the producer resolved with, and the events it emitted; the
\* TTL expression it was handed and the argument lists it invoked makeKey
\* with are added by WithTtl and WithMadeKeys.
Outcome(op, prefix, keys, status, result, calls, produced, returned, emits) ==
  [op |-> op, prefix |-> prefix, keys |-> keys, status |-> status,
   result |-> result, calls |-> calls, produced |-> produced,
   returned |-> returned, emits |-> emits, ttl |-> NoTtl, madeKeys |-> << >>]

\* The outcome of a call that was handed the TTL expression ttl.
WithTtl(outcome, ttl) == [outcome EXCEPT !.ttl = ttl]

\* The outcome of a call that invoked makeKey with these argument lists.
WithMadeKeys(outcome, madeKeys) == [outcome EXCEPT !.madeKeys = madeKeys]

Idle == [op |-> "idle"]

\* The facade write behind a stored entry: which operation of which Cache
\* stored which value under which logical key.
Origin(op, prefix, key, value) ==
  [op |-> op, prefix |-> prefix, key |-> key, value |-> value]

RECURSIVE recordWrites(_, _, _)
recordWrites(w, entries, origins) ==
  IF entries = << >>
    THEN w
    ELSE recordWrites(
           [x \in DOMAIN w \cup {Head(entries)[1]} |->
              IF x = Head(entries)[1] THEN Head(origins) ELSE w[x]],
           Tail(entries), Tail(origins))

\* The origins after the adapter wrote `entries` (origins[i] describes
\* entries[i]) and the engine ended up as m.
writtenAfter(w, entries, origins, m) ==
  LET all == recordWrites(w, entries, origins)
  IN  [x \in DOMAIN all \cap DOMAIN m |-> all[x]]

\* ------------------------------------------------------------------ state

\* ---- Backup persistence: MemoryCacheAdapter and DiskCacheBackupSaver ----

\* An entry { value, expireAtMs } of a CacheBackup.
BackupEntry(value, expireAtMs) ==
  [isNull |-> FALSE, value |-> value, expireAtMs |-> expireAtMs]

\* A null where JSON.parse found one in the place of an entry.
NullEntry == [isNull |-> TRUE, value |-> "", expireAtMs |-> 0]

\* The empty CacheBackup {}.
EmptyBackup == << >>

\* A TTL the engine reports counts in createCacheBackup: if (ttl).
truthyTtl(ttl) == ttl.defined /\ ttl.ms # 0

\* A snapshot that stamps every entry with the time it was taken, not with
\* the time it expires.
createCacheBackupNoTtl(m, t) ==
  [key \in {k \in engineKeys(m) : truthyTtl(engineGetRemainingTTL(m, k))} |->
     BackupEntry(engineGet(m, key), t)]

\* A snapshot of every entry, whatever TTL the engine reports for it.
createCacheBackupAll(m, t) ==
  [key \in engineKeys(m) |->
     BackupEntry(engineGet(m, key), t + engineGetRemainingTTL(m, key).ms)]

\* MemoryCacheAdapter.createCacheBackup at time t.
createCacheBackup(m, t) ==
  [key \in {k \in engineKeys(m) : truthyTtl(engineGetRemainingTTL(m, k))} |->
     BackupEntry(engineGet(m, key), t + engineGetRemainingTTL(m, key).ms)]

\* The text JSON.stringify makes of a CacheBackup.
jsonStringify(cacheBackup) == [kind |-> "object", entries |-> cacheBackup]

\* A text JSON.parse throws on, such as a file cut short.
GarbageText == [kind |-> "garbage", entries |-> EmptyBackup]

\* The text null.
NullText == [kind |-> "null", entries |-> EmptyBackup]

\* No file at filePath.
NoFile == [exists |-> FALSE, text |-> GarbageText]

\* The file at filePath with the given text.
FileWith(text) == [exists |-> TRUE, text |-> text]

\* What tryToLoadFromDisk returns: a CacheBackup or null.
Loaded(cacheBackup) == [isNull |-> FALSE, backup |-> cacheBackup]
LoadedNull == [isNull |-> TRUE, backup |-> EmptyBackup]

\* DiskCacheBackupSaver.tryToLoadFromDisk: JSON.parse of the file's text,
\* null when there is no file or the text does not parse.
tryToLoadFromDisk(f) ==
  IF ~f.exists THEN LoadedNull
  ELSE IF f.text.kind = "garbage" THEN LoadedNull
  ELSE IF f.text.kind = "null" THEN LoadedNull
  ELSE Loaded(f.text.entries)

\* DiskCacheBackupSaver.loadCacheBackup: tryToLoadFromDisk() ?? {}
loadCacheBackup(f) ==
  IF tryToLoadFromDisk(f).isNull THEN EmptyBackup ELSE tryToLoadFromDisk(f).backup

\* An import that also takes entries expiring at this very millisecond.
notExpiredOrNow(expireAtMs, t) == expireAtMs >= t

\* importCacheFromBackup: expireAtMs > now
notExpired(expireAtMs, t) == expireAtMs > t

\* importCacheFromBackup: destructuring { value, expireAtMs } of an entry
\* that is null throws a TypeError.
importThrows(cacheBackup) == \E key \in DOMAIN cacheBackup : cacheBackup[key].isNull

\* An import that takes expireAtMs itself for the TTL.
importCacheFromBackupAbsoluteTtl(cacheBackup, t) ==
  [key \in {k \in DOMAIN cacheBackup : notExpired(cacheBackup[k].expireAtMs, t)} |->
     [value |-> cacheBackup[key].value, ttl |-> cacheBackup[key].expireAtMs]]

\* importCacheFromBackup into a new engine at time t, when it does not throw.
importCacheFromBackup(cacheBackup, t) ==
  [key \in {k \in DOMAIN cacheBackup : notExpired(cacheBackup[k].expireAtMs, t)} |->
     [value |-> cacheBackup[key].value, ttl |-> cacheBackup[key].expireAtMs - t]]

\* No write in flight.
NoWrite == [active |-> FALSE, text |-> GarbageText, save |-> 0]

\* The write of the given text, started by the save with that number.
Write(text, save) == [active |-> TRUE, text |-> text, save |-> save]

\* One saveCacheBackup call: who made it, with what snapshot, and what
\* became of it.
SaveRecord(by, cacheBackup, outcome) ==
  [by |-> by, snapshot |-> cacheBackup, outcome |-> outcome]

\* A saver that never notices a save in flight.
alreadySavingNever(flag) == FALSE

\* saveCacheBackup: if (this.saving) return;
alreadySaving(flag) == flag

\* A mutation that awaits the save it started.
settleAwaitingSave(saveInFlight) == IF saveInFlight THEN "pending" ELSE "ok"

\* mset, mdel, pdel: void this.saveBackup() - the promise of the mutation
\* resolves whatever becomes of the save.
settle(saveInFlight) == "ok"

VARIABLES
  prefixes,   \* the prefixes of the Cache instances built over the adapter
  cache,      \* the engine's map: storage key -> [value, ttl]
  pending,    \* the cached/mcached call that awaits its producer, or Idle
  last,       \* the outcome of the latest step
  written,    \* per stored entry: the facade write that stored it
  nOps,       \* calls started so far
  listeners,  \* what the listeners of the Cache's 'read' event do
  file,       \* the backup file on disk
  saving,     \* DiskCacheBackupSaver.saving
  inflight,   \* the fs.promises.writeFile that has not settled yet
  saves,      \* every saveCacheBackup call so far and what became of it
  adapter,    \* whether the MemoryCacheAdapter constructor returned
  now         \* Date.now()

backupVars == <<file, saving, inflight, saves, adapter, now>>

vars == <<prefixes, cache, pending, last, written, nOps, listeners, backupVars>>

\* What a listener that throws makes the call reject with.
ListenerError == "the error a 'read' listener threw"

\* this.emit('read', ...): EventEmitter calls the listeners synchronously,
\* and what a listener throws is thrown by emit.
emitThrows == listeners = "throws"

\* The outcome of a call that an emit threw out of.
Rejected(op, prefix, keys, calls, emits) ==
  Outcome(op, prefix, keys, "error", ListenerError, calls, << >>, << >>, emits)

\* An adapter built without a backup saver: saveBackup returns at once,
\* and nothing is loaded, saved or written.
NoBackupSaver ==
  /\ file = NoFile
  /\ saving = FALSE
  /\ inflight = NoWrite
  /\ saves = << >>
  /\ adapter = "ok"
  /\ now = 0

Init ==
  /\ NoBackupSaver
  /\ prefixes \in Configs
  /\ cache = << >>
  /\ pending = Idle
  /\ last = Outcome("new", << >>, << >>, "ok", JsUndefined,
                    << >>, << >>, << >>, << >>)
  /\ written = << >>
  /\ nOps = 0
  /\ listeners = "none"

\* A caller awaits each call before it starts the next one.
CanStart == pending = Idle /\ nOps < MaxOps

\* Lists of at most MaxLen elements of S.
ListsOf(S) == UNION {[1..n -> S] : n \in 0..MaxLen}

\* Glob patterns callers pass to pdel.
Patterns == { <<"k">>, <<"b", ":", "*">>, <<"?">> }

\* What a producer may resolve with when asked for n values.
ProducerOutputs(n) == UNION {[1..m -> Values] : m \in 0..(n + 1)}

\* ---------------------------------------------------------------- actions

\* Cache.get
Get(prefix, key) ==
  LET cacheKey == getCacheKey(prefix, key)
      res == adapterGet(cache, cacheKey)
  IN  /\ CanStart
      /\ nOps' = nOps + 1
      /\ last' =
           IF emitThrows
             THEN Rejected("get", prefix, <<key>>,
                    <<AdapterCall("get", <<cacheKey>>, << >>)>>,
                    <<ReadEvent(key, res # Undefined, "Get")>>)
             ELSE Outcome("get", prefix, <<key>>, "ok", readResult(res),
                    <<AdapterCall("get", <<cacheKey>>, << >>)>>, << >>, << >>,
                    <<ReadEvent(key, res # Undefined, "Get")>>)
      /\ UNCHANGED <<backupVars, listeners, prefixes, cache, pending, written>>

\* Cache.mget
Mget(prefix, keys) ==
  LET cacheKeys == cacheKeysOf(prefix, keys)
      res == adapterMget(cache, cacheKeys)
  IN  /\ CanStart
      /\ nOps' = nOps + 1
      /\ last' =
           IF nothingRequested(keys)
             THEN Outcome("mget", prefix, keys, "ok", << >>,
                          << >>, << >>, << >>, << >>)
             ELSE IF emitThrows
             THEN Rejected("mget", prefix, keys,
                    <<AdapterCall("mget", cacheKeys, << >>)>>,
                    <<ReadEvent(keys[1], res[1] # Undefined, "Mget")>>)
             ELSE Outcome("mget", prefix, keys, "ok",
                    [i \in 1..Len(keys) |-> readResult(res[i])],
                    <<AdapterCall("mget", cacheKeys, << >>)>>, << >>, << >>,
                    [i \in 1..Len(keys) |->
                       ReadEvent(keys[i], res[i] # Undefined, "Mget")])
      /\ UNCHANGED <<backupVars, listeners, prefixes, cache, pending, written>>

\* Cache.set
Set(prefix, key, value, ttl) ==
  LET cacheKey == getCacheKey(prefix, key)
  IN  /\ CanStart
      /\ nOps' = nOps + 1
      /\ IF ttlToMsThrows(ttl, <<value>>)
           THEN /\ last' = WithTtl(Outcome("set", prefix, <<key>>, "error",
                                TtlError, << >>, << >>, << >>, << >>), ttl)
                /\ UNCHANGED <<cache, written>>
           ELSE LET ttlMs == ttlToMs(ttl, <<value>>)
                    entry == <<cacheKey, defaultSerialize(value), ttlMs>>
                IN  /\ cache' = adapterSet(cache, entry[1], entry[2], entry[3])
                    /\ written' = writtenAfter(written, <<entry>>,
                                    <<Origin("set", prefix, key, value)>>, cache')
                    /\ last' = WithTtl(Outcome("set", prefix, <<key>>, "ok",
                                    JsUndefined,
                                    <<AdapterCall("set", <<cacheKey>>, <<entry>>)>>,
                                    << >>, << >>, << >>), ttl)
      /\ UNCHANGED <<backupVars, listeners, prefixes, pending>>

\* Cache.mset; keys[i] is what makeKey returns for (items[i], i).
Mset(prefix, items, keys, ttl) ==
  /\ CanStart
  /\ Len(keys) = Len(items)
  /\ nOps' = nOps + 1
  /\ IF firstTtlThrow(items, ttl) # 0
       THEN /\ last' = WithMadeKeys(WithTtl(
                         Outcome("mset", prefix, keys, "error", TtlError,
                                 << >>, << >>, << >>, << >>), ttl),
                         msetMakeKeyCalls(items, firstTtlThrow(items, ttl)))
            /\ UNCHANGED <<cache, written>>
       ELSE LET entries == msetEntries(prefix, items, keys, ttl)
            IN  /\ cache' = adapterMset(cache, entries)
                /\ written' = writtenAfter(written, entries,
                                [i \in 1..Len(items) |->
                                   Origin("mset", prefix, keys[i], items[i])],
                                cache')
                /\ last' = WithMadeKeys(WithTtl(
                             Outcome("mset", prefix, keys, "ok", JsUndefined,
                               <<AdapterCall("mset", cacheKeysOf(prefix, keys),
                                             entries)>>,
                               << >>, << >>, << >>), ttl),
                             msetMakeKeyCalls(items, Len(items)))
  /\ UNCHANGED <<backupVars, listeners, prefixes, pending>>

\* Cache.del
Del(prefix, key) ==
  LET cacheKey == getCacheKey(prefix, key)
  IN  /\ CanStart
      /\ nOps' = nOps + 1
      /\ cache' = adapterDel(cache, cacheKey)
      /\ written' = writtenAfter(written, << >>, << >>, cache')
      /\ last' = Outcome("del", prefix, <<key>>, "ok", JsUndefined,
                   <<AdapterCall("del", <<cacheKey>>, << >>)>>,
                   << >>, << >>, << >>)
      /\ UNCHANGED <<backupVars, listeners, prefixes, pending>>

\* Cache.mdel
Mdel(prefix, keys) ==
  LET cacheKeys == cacheKeysOf(prefix, keys)
  IN  /\ CanStart
      /\ nOps' = nOps + 1
      /\ cache' = adapterMdel(cache, cacheKeys)
      /\ written' = writtenAfter(written, << >>, << >>, cache')
      /\ last' = Outcome("mdel", prefix, keys, "ok", JsUndefined,
                   <<AdapterCall("mdel", cacheKeys, << >>)>>,
                   << >>, << >>, << >>)
      /\ UNCHANGED <<backupVars, listeners, prefixes, pending>>

\* The body of Cache.pdel; clear runs it with the pattern *.
pdelAs(op, prefix, pattern) ==
  LET cacheKey == getCacheKey(prefix, pattern)
  IN  /\ CanStart
      /\ nOps' = nOps + 1
      /\ cache' = adapterPdel(cache, cacheKey)
      /\ written' = writtenAfter(written, << >>, << >>, cache')
      /\ last' = Outcome(op, prefix, <<pattern>>, "ok", JsUndefined,
                   <<AdapterCall("pdel", <<cacheKey>>, << >>)>>,
                   << >>, << >>, << >>)
      /\ UNCHANGED <<backupVars, listeners, prefixes, pending>>

\* Cache.pdel
Pdel(prefix, pattern) == pdelAs("pdel", prefix, pattern)

\* Cache.clear
Clear(prefix) == pdelAs("clear", prefix, <<"*">>)

\* Cache.has
Has(prefix, key) ==
  LET cacheKey == getCacheKey(prefix, key)
  IN  /\ CanStart
      /\ nOps' = nOps + 1
      /\ last' = Outcome("has", prefix, <<key>>, "ok",
                   adapterHas(cache, cacheKey),
                   <<AdapterCall("has", <<cacheKey>>, << >>)>>,
                   << >>, << >>, << >>)
      /\ UNCHANGED <<backupVars, listeners, prefixes, cache, pending, written>>

\* Cache.mhas
Mhas(prefix, keys) ==
  LET cacheKeys == cacheKeysOf(prefix, keys)
  IN  /\ CanStart
      /\ nOps' = nOps + 1
      /\ last' = Outcome("mhas", prefix, keys, "ok",
                   adapterMhas(cache, cacheKeys),
                   <<AdapterCall("mhas", cacheKeys, << >>)>>,
                   << >>, << >>, << >>)
      /\ UNCHANGED <<backupVars, listeners, prefixes, cache, pending, written>>

\* Cache.getRemainingTtl
GetRemainingTtl(prefix, key) ==
  LET cacheKey == getCacheKey(prefix, key)
  IN  /\ CanStart
      /\ nOps' = nOps + 1
      /\ last' = Outcome("getRemainingTtl", prefix, <<key>>, "ok",
                   adapterGetRemainingTtl(cache, cacheKey),
                   <<AdapterCall("getRemainingTtl", <<cacheKey>>, << >>)>>,
                   << >>, << >>, << >>)
      /\ UNCHANGED <<backupVars, listeners, prefixes, cache, pending, written>>

\* Cache.cached up to the await of the producer: a hit returns, a miss
\* invokes the producer and suspends the call.
CachedStart(prefix, key, ttl) ==
  LET cacheKey == getCacheKey(prefix, key)
      res == adapterGet(cache, cacheKey)
      calls == <<AdapterCall("get", <<cacheKey>>, << >>)>>
      emits == <<ReadEvent(key, res # Undefined, "Cached")>>
  IN  /\ CanStart
      /\ nOps' = nOps + 1
      /\ IF emitThrows
           THEN /\ pending' = Idle
                /\ last' = WithTtl(Rejected("cached", prefix, <<key>>, calls,
                                            emits), ttl)
           ELSE IF isMiss(res)
           THEN /\ pending' = [op |-> "cached", prefix |-> prefix, keys |-> <<key>>,
                               ttl |-> ttl, cacheKeys |-> <<cacheKey>>,
                               calls |-> calls, emits |-> emits,
                               toReturn |-> << >>, missingIndices |-> << >>]
                /\ last' = WithTtl(Outcome("cached", prefix, <<key>>, "pending",
                             JsUndefined, calls, << << >> >>, << >>, emits), ttl)
           ELSE /\ pending' = Idle
                /\ last' = WithTtl(Outcome("cached", prefix, <<key>>, "ok",
                             defaultDeserialize(res), calls, << >>, << >>, emits),
                             ttl)
      /\ UNCHANGED <<backupVars, listeners, prefixes, cache, written>>

\* Cache.cached after its await of the producer yielded `value`;
\* `returned` is what the producer settled with.
cachedContinue(value, returned) ==
  /\ pending.op = "cached"
  /\ IF ttlToMsThrows(pending.ttl, <<value>>)
       THEN /\ last' = WithTtl(Outcome("cached", pending.prefix, pending.keys,
                            "error", TtlError, pending.calls,
                            << << >> >>, returned, pending.emits), pending.ttl)
            /\ UNCHANGED <<cache, written>>
       ELSE LET key == pending.keys[1]
                cacheKey == pending.cacheKeys[1]
                entry == cachedEntry(cacheKey, key, value, pending.ttl)
            IN  /\ cache' = adapterSet(cache, entry[1], entry[2], entry[3])
                /\ written' = writtenAfter(written, <<entry>>,
                                <<Origin("cached", pending.prefix, key, value)>>,
                                cache')
                /\ last' = WithTtl(Outcome("cached", pending.prefix,
                                pending.keys, "ok", value,
                                Append(pending.calls,
                                       AdapterCall("set", <<cacheKey>>, <<entry>>)),
                                << << >> >>, returned, pending.emits),
                                pending.ttl)
  /\ pending' = Idle
  /\ UNCHANGED <<backupVars, listeners, prefixes, nOps>>

\* Cache.cached from the moment its producer resolved with `value`.
CachedFinish(value) == cachedContinue(value, <<value>>)

\* Cache.mcached up to the await of the producer; the data are the first
\* Len(keys) data items and keys[i] is what makeKey returns for (data[i], i).
McachedStart(prefix, keys, ttl) ==
  LET cacheKeys == cacheKeysOf(prefix, keys)
      cachedResults == adapterMget(cache, cacheKeys)
      missingIndices == missingIndicesOf(cachedResults)
      toReturn == hitsOf(cachedResults)
      calls == <<AdapterCall("mget", cacheKeys, << >>)>>
      emits == [i \in 1..Len(keys) |->
                  ReadEvent(keys[i], cachedResults[i] # Undefined, "Mcached")]
      with(outcome) ==
        WithMadeKeys(WithTtl(outcome, ttl),
                     mcachedMakeKeyCalls(DataItems, Len(keys)))
  IN  /\ CanStart
      /\ nOps' = nOps + 1
      /\ IF emitThrows /\ Len(keys) > 0
           THEN /\ pending' = Idle
                /\ last' = with(Rejected("mcached", prefix, keys, calls,
                                         <<emits[1]>>))
           ELSE IF allCached(missingIndices)
           THEN /\ pending' = Idle
                /\ last' = with(Outcome("mcached", prefix, keys, "ok", toReturn,
                                        calls, << >>, << >>, emits))
           ELSE /\ pending' = [op |-> "mcached", prefix |-> prefix, keys |-> keys,
                               ttl |-> ttl, cacheKeys |-> cacheKeys,
                               calls |-> calls, emits |-> emits,
                               toReturn |-> toReturn,
                               missingIndices |-> missingIndices]
                /\ last' = with(Outcome("mcached", prefix, keys, "pending",
                             toReturn, calls,
                             <<missingDataOf(DataItems, missingIndices)>>,
                             << >>, emits))
      /\ UNCHANGED <<backupVars, listeners, prefixes, cache, written>>

\* Cache.mcached from the moment its producer resolved with producedValues.
McachedFinish(producedValues) ==
  /\ pending.op = "mcached"
  /\ producedValues \in ProducerOutputs(Len(pending.missingIndices))
  /\ LET missingIndices == pending.missingIndices
         missingData == missingDataOf(DataItems, missingIndices)
         with(outcome) ==
           WithMadeKeys(WithTtl(outcome, pending.ttl),
                        mcachedMakeKeyCalls(DataItems, Len(pending.keys)))
     IN  IF arityMismatch(producedValues, missingData)
           THEN /\ last' = with(Outcome("mcached", pending.prefix, pending.keys,
                             "error", ArityError, pending.calls,
                             <<missingData>>, <<producedValues>>, pending.emits))
                /\ UNCHANGED <<cache, written>>
           ELSE IF firstTtlThrow(producedValues, pending.ttl) # 0
           THEN /\ last' = with(Outcome("mcached", pending.prefix, pending.keys,
                             "error", TtlError, pending.calls,
                             <<missingData>>, <<producedValues>>, pending.emits))
                /\ UNCHANGED <<cache, written>>
           ELSE LET toStore == toStoreOf(pending.cacheKeys, missingIndices,
                                         producedValues, pending.ttl)
                IN
                /\ cache' = adapterMset(cache, toStore)
                /\ written' = writtenAfter(written, toStore,
                                [index \in 1..Len(producedValues) |->
                                   Origin("mcached", pending.prefix,
                                          pending.keys[missingIndices[index]],
                                          producedValues[index])], cache')
                /\ last' = with(Outcome("mcached", pending.prefix, pending.keys,
                             "ok",
                             scatter(pending.toReturn, missingIndices, producedValues),
                             Append(pending.calls,
                                    AdapterCall("mset",
                                      [index \in 1..Len(toStore) |-> toStore[index][1]],
                                      toStore)),
                             <<missingData>>, <<producedValues>>, pending.emits))
  /\ pending' = Idle
  /\ UNCHANGED <<backupVars, listeners, prefixes, nOps>>

Next ==
  \/ \E prefix \in prefixes, key \in PathKeys : Get(prefix, key)
  \/ \E prefix \in prefixes, keys \in ListsOf(Keys) : Mget(prefix, keys)
  \/ \E prefix \in prefixes, key \in PathKeys, value \in Values, ttl \in TtlExprs1 :
       Set(prefix, key, value, ttl)
  \/ \E prefix \in prefixes, items \in ListsOf(Values), keys \in ListsOf(Keys),
        ttl \in TtlExprs2 :
       Mset(prefix, items, keys, ttl)
  \/ \E prefix \in prefixes, key \in Keys : Del(prefix, key)
  \/ \E prefix \in prefixes, keys \in ListsOf(Keys) : Mdel(prefix, keys)
  \/ \E prefix \in prefixes, pattern \in Patterns : Pdel(prefix, pattern)
  \/ \E prefix \in prefixes : Clear(prefix)
  \/ \E prefix \in prefixes, key \in PathKeys : Has(prefix, key)
  \/ \E prefix \in prefixes, keys \in ListsOf(Keys) : Mhas(prefix, keys)
  \/ \E prefix \in prefixes, key \in Keys : GetRemainingTtl(prefix, key)
  \/ \E prefix \in prefixes, key \in Keys, ttl \in TtlExprs1 :
       CachedStart(prefix, key, ttl)
  \/ \E value \in Values : CachedFinish(value)
  \/ \E prefix \in prefixes, keys \in ListsOf(Keys), ttl \in TtlExprs2 :
       McachedStart(prefix, keys, ttl)
  \/ \E producedValues \in ProducerOutputs(MaxLen) : McachedFinish(producedValues)

Spec == Init /\ [][Next]_vars

\* ---- The Cache with listeners on its 'read' event ----

\* What the registered listeners do: there are none, they return, or one of
\* them throws.
ListenerKinds == {"none", "quiet", "throws"}

\* A Cache with and one without a prefix over an empty adapter, with
\* listeners of one kind registered by cache.on('read', ...).
InitEvents ==
  /\ NoBackupSaver
  /\ prefixes = {NoPrefix, PrefixB}
  /\ cache = << >>
  /\ pending = Idle
  /\ last = Outcome("new", << >>, << >>, "ok", JsUndefined,
                    << >>, << >>, << >>, << >>)
  /\ written = << >>
  /\ nOps = 0
  /\ listeners \in ListenerKinds

\* The calls that read, and set to fill the engine.
NextEvents ==
  \/ \E prefix \in prefixes, key \in Keys, value \in Values, ttl \in TtlExprs1 :
       Set(prefix, key, value, ttl)
  \/ \E prefix \in prefixes, key \in Keys : Get(prefix, key)
  \/ \E prefix \in prefixes, keys \in ListsOf(Keys) : Mget(prefix, keys)
  \/ \E prefix \in prefixes, key \in Keys, ttl \in TtlExprs1 :
       CachedStart(prefix, key, ttl)
  \/ \E value \in Values : CachedFinish(value)
  \/ \E prefix \in prefixes, keys \in ListsOf(Keys), ttl \in TtlExprs2 :
       McachedStart(prefix, keys, ttl)
  \/ \E producedValues \in ProducerOutputs(MaxLen) : McachedFinish(producedValues)

SpecEvents == InitEvents /\ [][NextEvents]_vars

\* ---- The Cache handed TTL expressions of every kind ----

\* TTL expressions for set and cached: numbers down to zero and below,
\* duration strings, a string ms does not recognise, the empty string, and
\* functions that return a number, a string or a function, or throw.
TtlExprsAny1 ==
  { TtlNumber(1000), TtlNumber(0), TtlNumber(-1),
    TtlString("1s"), TtlString("soon"), TtlString(""),
    TtlFunction("byValue"), TtlFunction("nested"),
    TtlFunction("nestedThrows"), TtlFunction("throws") }

\* TTL expressions for mset and mcached.
TtlExprsAny2 ==
  { TtlNumber(0), TtlString("2s"), TtlString("soon"),
    TtlFunction("byIndex"), TtlFunction("throwsAfterFirst") }

\* One Cache with a prefix over an empty adapter.
InitTtl ==
  /\ NoBackupSaver
  /\ prefixes = {PrefixB}
  /\ cache = << >>
  /\ pending = Idle
  /\ last = Outcome("new", << >>, << >>, "ok", JsUndefined,
                    << >>, << >>, << >>, << >>)
  /\ written = << >>
  /\ nOps = 0
  /\ listeners = "none"

\* The calls that take a TTL expression.
NextTtl ==
  \/ \E prefix \in prefixes, key \in Keys, value \in Values, ttl \in TtlExprsAny1 :
       Set(prefix, key, value, ttl)
  \/ \E prefix \in prefixes, items \in ListsOf(Values), keys \in ListsOf(Keys),
        ttl \in TtlExprsAny2 :
       Mset(prefix, items, keys, ttl)
  \/ \E prefix \in prefixes, key \in Keys, ttl \in TtlExprsAny1 :
       CachedStart(prefix, key, ttl)
  \/ \E value \in Values : CachedFinish(value)
  \/ \E prefix \in prefixes, keys \in ListsOf(Keys), ttl \in TtlExprsAny2 :
       McachedStart(prefix, keys, ttl)
  \/ \E producedValues \in ProducerOutputs(MaxLen) : McachedFinish(producedValues)

SpecTtl == InitTtl /\ [][NextTtl]_vars

\* ---- The Cache with producers that fail ----

\* What a producer that fails rejects with.
ProducerError == "the error the producer rejected with"

\* An await that takes a rejection for the value null.
awaitSwallows(rejected) == FALSE

\* const value = await producer(): a rejection of the producer is thrown
\* at the await.
awaitThrows(rejected) == rejected

\* Cache.cached from the moment its producer rejected (or threw before it
\* returned a promise): nothing after the await runs.
CachedProducerFails ==
  IF awaitThrows(TRUE)
    THEN /\ pending.op = "cached"
         /\ last' = WithTtl(Outcome("cached", pending.prefix, pending.keys,
                         "error", ProducerError, pending.calls,
                         << << >> >>, << >>, pending.emits), pending.ttl)
         /\ pending' = Idle
         /\ UNCHANGED <<backupVars, listeners, prefixes, nOps, cache, written>>
    ELSE cachedContinue(JsNull, << >>)

\* Cache.mcached from the moment its producer rejected: the arity check
\* and the batched set are never reached.
McachedProducerFails ==
  /\ pending.op = "mcached"
  /\ awaitThrows(TRUE)
  /\ last' = WithMadeKeys(WithTtl(
                Outcome("mcached", pending.prefix, pending.keys, "error",
                        ProducerError, pending.calls,
                        <<missingDataOf(DataItems, pending.missingIndices)>>,
                        << >>, pending.emits), pending.ttl),
                mcachedMakeKeyCalls(DataItems, Len(pending.keys)))
  /\ pending' = Idle
  /\ UNCHANGED <<backupVars, listeners, prefixes, nOps, cache, written>>

\* set, cached and mcached with producers that resolve or reject.
NextProducer ==
  \/ \E prefix \in prefixes, key \in Keys, value \in Values, ttl \in TtlExprs1 :
       Set(prefix, key, value, ttl)
  \/ \E prefix \in prefixes, key \in Keys, ttl \in TtlExprs1 :
       CachedStart(prefix, key, ttl)
  \/ \E value \in Values : CachedFinish(value)
  \/ CachedProducerFails
  \/ \E prefix \in prefixes, keys \in ListsOf(Keys), ttl \in TtlExprs2 :
       McachedStart(prefix, keys, ttl)
  \/ \E producedValues \in ProducerOutputs(MaxLen) : McachedFinish(producedValues)
  \/ McachedProducerFails

SpecProducer == InitTtl /\ [][NextProducer]_vars

\* ---- Callers that do not wait for each other ----

\* Calls started in one run by callers that do not wait for each other.
MaxConcurrentOps == 3

\* The callers; each awaits its own call before it starts the next one.
Callers == {1, 2}

\* A caller whose latest call has returned or thrown.
Returned(outcome) == [op |-> "returned", outcome |-> outcome]

\* One Cache with a prefix over an empty adapter; pending holds, for every
\* caller, the call it awaits, the outcome of its latest call, or Idle.
InitConcurrent ==
  /\ NoBackupSaver
  /\ prefixes = {PrefixB}
  /\ cache = << >>
  /\ pending = [c \in Callers |-> Idle]
  /\ last = Outcome("new", << >>, << >>, "ok", JsUndefined,
                    << >>, << >>, << >>, << >>)
  /\ written = << >>
  /\ nOps = 0
  /\ listeners = "none"

CallerCanStart(c) ==
  /\ pending[c].op \in {"idle", "returned"}
  /\ nOps < MaxConcurrentOps

\* What a step of caller c leaves in pending and last: the suspended call
\* while the outcome is "pending", the outcome once the call has settled.
callerStep(c, suspended, outcome) ==
  /\ last' = outcome
  /\ pending' = [pending EXCEPT ![c] = IF outcome.status = "pending"
                                         THEN suspended
                                         ELSE Returned(outcome)]

\* Cache.cached called by caller c, up to the await of the producer.
CachedStartBy(c, prefix, key, ttl) ==
  LET cacheKey == getCacheKey(prefix, key)
      res == adapterGet(cache, cacheKey)
      calls == <<AdapterCall("get", <<cacheKey>>, << >>)>>
      emits == <<ReadEvent(key, res # Undefined, "Cached")>>
      suspended == [op |-> "cached", prefix |-> prefix, keys |-> <<key>>,
                    ttl |-> ttl, cacheKeys |-> <<cacheKey>>,
                    calls |-> calls, emits |-> emits,
                    toReturn |-> << >>, missingIndices |-> << >>]
  IN  /\ CallerCanStart(c)
      /\ nOps' = nOps + 1
      /\ callerStep(c, suspended,
           WithTtl(
             IF emitThrows
               THEN Rejected("cached", prefix, <<key>>, calls, emits)
             ELSE IF isMiss(res)
               THEN Outcome("cached", prefix, <<key>>, "pending", JsUndefined,
                            calls, << << >> >>, << >>, emits)
             ELSE Outcome("cached", prefix, <<key>>, "ok",
                          defaultDeserialize(res), calls, << >>, << >>, emits),
             ttl))
      /\ UNCHANGED <<backupVars, listeners, prefixes, cache, written>>

\* Cache.cached of caller c from the moment its producer resolved.
CachedFinishBy(c, value) ==
  /\ pending[c].op = "cached"
  /\ LET call == pending[c]
         key == call.keys[1]
         cacheKey == call.cacheKeys[1]
     IN  IF ttlToMsThrows(call.ttl, <<value>>)
           THEN /\ callerStep(c, call,
                     WithTtl(Outcome("cached", call.prefix, call.keys, "error",
                                     TtlError, call.calls, << << >> >>,
                                     <<value>>, call.emits), call.ttl))
                /\ UNCHANGED <<cache, written>>
           ELSE LET entry == cachedEntry(cacheKey, key, value, call.ttl)
                IN  /\ cache' = adapterSet(cache, entry[1], entry[2], entry[3])
                    /\ written' = writtenAfter(written, <<entry>>,
                                    <<Origin("cached", call.prefix, key, value)>>,
                                    cache')
                    /\ callerStep(c, call,
                         WithTtl(Outcome("cached", call.prefix, call.keys, "ok",
                                   value,
                                   Append(call.calls,
                                          AdapterCall("set", <<cacheKey>>,
                                                      <<entry>>)),
                                   << << >> >>, <<value>>, call.emits), call.ttl))
  /\ UNCHANGED <<backupVars, listeners, prefixes, nOps>>

\* Cache.mcached called by caller c, up to the await of the producer.
McachedStartBy(c, prefix, keys, ttl) ==
  LET cacheKeys == cacheKeysOf(prefix, keys)
      cachedResults == adapterMget(cache, cacheKeys)
      missingIndices == missingIndicesOf(cachedResults)
      toReturn == hitsOf(cachedResults)
      calls == <<AdapterCall("mget", cacheKeys, << >>)>>
      emits == [i \in 1..Len(keys) |->
                  ReadEvent(keys[i], cachedResults[i] # Undefined, "Mcached")]
      suspended == [op |-> "mcached", prefix |-> prefix, keys |-> keys,
                    ttl |-> ttl, cacheKeys |-> cacheKeys,
                    calls |-> calls, emits |-> emits,
                    toReturn |-> toReturn, missingIndices |-> missingIndices]
  IN  /\ CallerCanStart(c)
      /\ nOps' = nOps + 1
      /\ callerStep(c, suspended,
           WithMadeKeys(WithTtl(
             IF emitThrows /\ Len(keys) > 0
               THEN Rejected("mcached", prefix, keys, calls, <<emits[1]>>)
             ELSE IF allCached(missingIndices)
               THEN Outcome("mcached", prefix, keys, "ok", toReturn,
                            calls, << >>, << >>, emits)
             ELSE Outcome("mcached", prefix, keys, "pending", toReturn, calls,
                          <<missingDataOf(DataItems, missingIndices)>>,
                          << >>, emits),
             ttl), mcachedMakeKeyCalls(DataItems, Len(keys))))
      /\ UNCHANGED <<backupVars, listeners, prefixes, cache, written>>

\* Cache.mcached of caller c from the moment its producer resolved.
McachedFinishBy(c, producedValues) ==
  /\ pending[c].op = "mcached"
  /\ producedValues \in ProducerOutputs(Len(pending[c].missingIndices))
  /\ LET call == pending[c]
         missingIndices == call.missingIndices
         missingData == missingDataOf(DataItems, missingIndices)
         with(outcome) ==
           WithMadeKeys(WithTtl(outcome, call.ttl),
                        mcachedMakeKeyCalls(DataItems, Len(call.keys)))
     IN  IF arityMismatch(producedValues, missingData)
           THEN /\ callerStep(c, call,
                     with(Outcome("mcached", call.prefix, call.keys, "error",
                                  ArityError, call.calls, <<missingData>>,
                                  <<producedValues>>, call.emits)))
                /\ UNCHANGED <<cache, written>>
           ELSE IF firstTtlThrow(producedValues, call.ttl) # 0
           THEN /\ callerStep(c, call,
                     with(Outcome("mcached", call.prefix, call.keys, "error",
                                  TtlError, call.calls, <<missingData>>,
                                  <<producedValues>>, call.emits)))
                /\ UNCHANGED <<cache, written>>
           ELSE LET toStore == toStoreOf(call.cacheKeys, missingIndices,
                                         producedValues, call.ttl)
                IN  /\ cache' = adapterMset(cache, toStore)
                    /\ written' = writtenAfter(written, toStore,
                                    [index \in 1..Len(producedValues) |->
                                       Origin("mcached", call.prefix,
                                              call.keys[missingIndices[index]],
                                              producedValues[index])], cache')
                    /\ callerStep(c, call,
                         with(Outcome("mcached", call.prefix, call.keys, "ok",
                                scatter(call.toReturn, missingIndices,
                                        producedValues),
                                Append(call.calls,
                                       AdapterCall("mset",
                                         [index \in 1..Len(toStore) |->
                                            toStore[index][1]],
                                         toStore)),
                                <<missingData>>, <<producedValues>>, call.emits)))
  /\ UNCHANGED <<backupVars, listeners, prefixes, nOps>>

NextConcurrent ==
  \/ \E c \in Callers, prefix \in prefixes, key \in Keys :
       CachedStartBy(c, prefix, key, TtlNumber(1000))
  \/ \E c \in Callers, value \in Values : CachedFinishBy(c, value)
  \/ \E c \in Callers, prefix \in prefixes, keys \in ListsOf(Keys) :
       McachedStartBy(c, prefix, keys, TtlNumber(1000))
  \/ \E c \in Callers, producedValues \in ProducerOutputs(MaxLen) :
       McachedFinishBy(c, producedValues)

SpecConcurrent == InitConcurrent /\ [][NextConcurrent]_vars

\* ---- The memory adapter with a DiskCacheBackupSaver ----

\* Calls made on the adapter and the saver in one run.
MaxCalls == 3

\* The serialized values the adapter is handed.
StoredTexts == {defaultSerialize(JsString("x")), defaultSerialize(JsString("y"))}

\* The TTLs in milliseconds the adapter is handed.
TtlsMs == {1000, 2000}

\* The entries mset is handed.
EntriesMs == { <<KeyK, defaultSerialize(JsString("x")), 1000>>,
               <<KeyBK, defaultSerialize(JsString("y")), 2000>> }

\* The patterns pdel is handed.
AdapterPatterns == { <<"*">>, <<"b", ":", "*">>, <<"k">> }

\* The values of Date.now() at which an adapter is constructed.
Times == {0, 1000, 2000}

\* What the backup file holds before the program first runs: nothing, a
\* text cut short, the text null, an object with a null for an entry, and
\* the backup of one entry that expires at 1000.
InitialFiles ==
  { NoFile,
    FileWith(GarbageText),
    FileWith(NullText),
    FileWith(jsonStringify(KeyK :> NullEntry)),
    FileWith(jsonStringify(KeyK :> BackupEntry(defaultSerialize(JsString("x")), 1000))) }

\* What a direct caller hands saveCacheBackup: the empty snapshot, a
\* snapshot of one entry, and an object that refers to itself.
DirectArguments ==
  { [backup |-> EmptyBackup, cyclic |-> FALSE],
    [backup |-> KeyK :> BackupEntry(defaultSerialize(JsString("y")), 2000),
     cyclic |-> FALSE],
    [backup |-> KeyK :> BackupEntry(defaultSerialize(JsString("y")), 2000),
     cyclic |-> TRUE] }

\* JSON.stringify throws a TypeError on an object that refers to itself.
jsonStringifyThrows(argument) == argument.cyclic

\* new MemoryCacheAdapter(engine, saver) over a new engine at time t: the
\* constructor loads the backup and imports it, or throws.
constructAdapter(f, t) ==
  IF importThrows(loadCacheBackup(f))
    THEN [adapter |-> "threw", cache |-> engineClear(<< >>)]
    ELSE [adapter |-> "ok", cache |-> importCacheFromBackup(loadCacheBackup(f), t)]

\* The outcome of a call on the adapter or the saver.
AdapterOutcome(op, keys, status) ==
  Outcome(op, << >>, keys, status, JsUndefined, << >>, << >>, << >>, << >>)

\* The state after the adapter was constructed over the saver at time 0.
InitBackup ==
  /\ file \in InitialFiles
  /\ now = 0
  /\ saving = FALSE
  /\ inflight = NoWrite
  /\ saves = << >>
  /\ adapter = constructAdapter(file, 0).adapter
  /\ cache = constructAdapter(file, 0).cache
  /\ last = AdapterOutcome("construct", << >>,
              IF constructAdapter(file, 0).adapter = "ok" THEN "ok" ELSE "error")
  /\ prefixes = {NoPrefix}
  /\ pending = Idle
  /\ written = << >>
  /\ nOps = 0
  /\ listeners = "none"

\* The Cache's own variables, which calls on the adapter leave alone.
cacheSide == <<prefixes, pending, written, listeners>>

CanCall == nOps < MaxCalls

\* DiskCacheBackupSaver.saveCacheBackup up to its await of writeFile;
\* `serializable` says whether JSON.stringify accepts the argument.
saveCacheBackup(by, cacheBackup, serializable) ==
  IF alreadySaving(saving)
    THEN /\ saves' = Append(saves, SaveRecord(by, cacheBackup, "dropped"))
         /\ UNCHANGED <<saving, inflight>>
    ELSE IF ~serializable
    THEN /\ saving' = TRUE
         /\ saves' = Append(saves, SaveRecord(by, cacheBackup, "threw"))
         /\ UNCHANGED inflight
    ELSE /\ saving' = TRUE
         /\ inflight' = Write(jsonStringify(cacheBackup), Len(saves) + 1)
         /\ saves' = Append(saves, SaveRecord(by, cacheBackup, "writing"))

\* MemoryCacheAdapter.saveBackup over the map m the mutation left.
saveBackup(by, m) == saveCacheBackup(by, createCacheBackup(m, now), TRUE)

\* A mutation of the adapter: the map changes, the save is started and not
\* awaited, the call resolves.
mutate(op, keys, m) ==
  /\ adapter = "ok"
  /\ CanCall
  /\ nOps' = nOps + 1
  /\ cache' = m
  /\ saveBackup(op, m)
  /\ last' = AdapterOutcome(op, keys, settle(inflight'.active))
  /\ UNCHANGED <<file, adapter, now, cacheSide>>

\* MemoryCacheAdapter.set
AdapterSet(key, value, ttlMs) ==
  mutate("adapter.set", <<key>>, adapterSet(cache, key, value, ttlMs))

\* MemoryCacheAdapter.mset
AdapterMset(entries) ==
  mutate("adapter.mset", [i \in 1..Len(entries) |-> entries[i][1]],
         adapterMset(cache, entries))

\* MemoryCacheAdapter.del
AdapterDel(key) == mutate("adapter.del", <<key>>, adapterDel(cache, key))

\* MemoryCacheAdapter.mdel
AdapterMdel(keys) == mutate("adapter.mdel", keys, adapterMdel(cache, keys))

\* MemoryCacheAdapter.pdel: the pattern '*' clears the engine and returns.
AdapterPdel(pattern) ==
  IF pattern = <<"*">>
    THEN /\ adapter = "ok"
         /\ CanCall
         /\ nOps' = nOps + 1
         /\ cache' = adapterPdel(cache, pattern)
         /\ last' = AdapterOutcome("adapter.pdel", <<pattern>>, "ok")
         /\ UNCHANGED <<file, saving, inflight, saves, adapter, now, cacheSide>>
    ELSE mutate("adapter.pdel", <<pattern>>, adapterPdel(cache, pattern))

\* saveCacheBackup called on the saver directly.
SaverSave(argument) ==
  /\ CanCall
  /\ nOps' = nOps + 1
  /\ saveCacheBackup("caller", argument.backup, ~jsonStringifyThrows(argument))
  /\ last' = AdapterOutcome("saver.save", << >>,
               IF ~alreadySaving(saving) /\ jsonStringifyThrows(argument)
                 THEN "error"
               ELSE IF alreadySaving(saving) THEN "ok" ELSE "pending")
  /\ UNCHANGED <<file, cache, adapter, now, cacheSide>>

\* What became of the save whose write settled.
settled(outcome) == [saves EXCEPT ![inflight.save].outcome = outcome]

\* fs.promises.writeFile resolves: the file holds the text, and the
\* finally block releases the flag.
WriteSucceeds ==
  /\ inflight.active
  /\ file' = FileWith(inflight.text)
  /\ saving' = FALSE
  /\ inflight' = NoWrite
  /\ saves' = settled("written")
  /\ last' = AdapterOutcome("write", << >>, "ok")
  /\ UNCHANGED <<cache, adapter, now, nOps, cacheSide>>

\* fs.promises.writeFile rejects, having left the file alone or cut short;
\* the finally block releases the flag.
WriteFails(cutShort) ==
  /\ inflight.active
  /\ file' = IF cutShort THEN FileWith(GarbageText) ELSE file
  /\ saving' = FALSE
  /\ inflight' = NoWrite
  /\ saves' = settled("failed")
  /\ last' = AdapterOutcome("write", << >>, "error")
  /\ UNCHANGED <<cache, adapter, now, nOps, cacheSide>>

\* A new MemoryCacheAdapter over a new engine and the same saver, at time t.
Construct(t) ==
  /\ CanCall
  /\ t >= now
  /\ nOps' = nOps + 1
  /\ now' = t
  /\ adapter' = constructAdapter(file, t).adapter
  /\ cache' = constructAdapter(file, t).cache
  /\ last' = AdapterOutcome("construct", << >>,
               IF constructAdapter(file, t).adapter = "ok" THEN "ok" ELSE "error")
  /\ UNCHANGED <<file, saving, inflight, saves, cacheSide>>

NextBackup ==
  \/ \E key \in Keys, value \in StoredTexts, ttlMs \in TtlsMs :
       AdapterSet(key, value, ttlMs)
  \/ \E entries \in ListsOf(EntriesMs) : AdapterMset(entries)
  \/ \E key \in Keys : AdapterDel(key)
  \/ \E keys \in ListsOf(Keys) : AdapterMdel(keys)
  \/ \E pattern \in AdapterPatterns : AdapterPdel(pattern)
  \/ \E argument \in DirectArguments : SaverSave(argument)
  \/ WriteSucceeds
  \/ \E cutShort \in BOOLEAN : WriteFails(cutShort)
  \/ \E t \in Times : Construct(t)

SpecBackup == InitBackup /\ [][NextBackup]_vars

\* ---- The memory adapter handed entries that expire at once ----

\* The TTLs in milliseconds the adapter is handed, zero among them.
TtlsMsOrZero == TtlsMs \cup {0}

\* The entries mset is handed, one of them with the TTL zero.
EntriesMsOrZero ==
  EntriesMs \cup { <<KeyK, defaultSerialize(JsString("y")), 0>> }

\* The mutations that set entries, the writes of the saver and the
\* construction of a new adapter from the file.
NextSnapshot ==
  \/ \E key \in Keys, value \in StoredTexts, ttlMs \in TtlsMsOrZero :
       AdapterSet(key, value, ttlMs)
  \/ \E entries \in ListsOf(EntriesMsOrZero) : AdapterMset(entries)
  \/ \E key \in Keys : AdapterDel(key)
  \/ WriteSucceeds
  \/ \E cutShort \in BOOLEAN : WriteFails(cutShort)
  \/ \E t \in Times : Construct(t)

SpecSnapshot == InitBackup /\ [][NextSnapshot]_vars

\* ---- The Redis adapter over an ioredis client ----
\* cache is the keyspace of the Redis server: key -> [value, ttl], with
\* the ttl NoExpiry for a key that does not expire.  pending is the pdel
\* whose scan has not ended, with the deletes it has issued.

\* Calls made on the Redis adapter in one run.
MaxRedisCalls == 2

\* What PTTL answers for a key without an expiry.
NoExpiry == -1

\* What the n-th call of the run rejects with when the client fails.
ClientError(n) == [name |-> "ReplyError", n |-> n]

\* The client call resolved.
NoError == [name |-> "none", n |-> 0]

\* new Error(message, { cause })
WrappedError(message, cause) ==
  [name |-> "Error", message |-> message, cause |-> cause]

\* new AggregateError(failedWith, message, { cause: { failedKeys } })
AggregateError(failedWith, message, failedKeys) ==
  [name |-> "AggregateError", message |-> message, errors |-> failedWith,
   cause |-> [failedKeys |-> failedKeys]]

\* One call of a method of the client and the error it rejected with.
ClientCall(m, keys, error) ==
  [m |-> m, keys |-> keys, entries |-> << >>, error |-> error]

\* The outcome of a call on the Redis adapter.
RedisOutcome(op, keys, status, result, calls) ==
  Outcome(op, << >>, keys, status, result, calls, << >>, << >>, << >>)

\* Redis glob patterns: a star matches any run of characters.
RECURSIVE redisMatch(_, _)
redisMatch(str, p) ==
  IF p = << >>
    THEN str = << >>
    ELSE IF Head(p) = "*"
      THEN \/ redisMatch(str, Tail(p))
           \/ str # << >> /\ redisMatch(Tail(str), p)
      ELSE /\ str # << >>
           /\ Head(p) = Head(str)
           /\ redisMatch(Tail(str), Tail(p))

\* The patterns pdel is handed.
RedisPatterns == { <<"*">>, <<"*", "k">>, <<"b", ":", "*">> }

\* The keyspace before the first call.
RedisKeyspaces ==
  { << >>,
    KeyK :> [value |-> defaultSerialize(JsString("x")), ttl |-> 1000],
    (KeyK :> [value |-> defaultSerialize(JsString("x")), ttl |-> 1000])
      @@ (KeyBK :> [value |-> defaultSerialize(JsString("y")), ttl |-> NoExpiry]) }

\* Non-empty lists of keys: what the server answers to a command without
\* keys is not the adapter's doing.
KeyLists == ListsOf(Keys) \ { << >> }

\* What a scan delivers in one 'data' event: some of the keys still to be
\* delivered, or none.
Batches(toScan) ==
  { << >> } \cup { <<k>> : k \in toScan }
    \cup { pair \in toScan \X toScan : pair[1] # pair[2] }

\* The elements of a list.
Range(list) == {list[i] : i \in 1..Len(list)}

\* A delete issued by the 'data' handler of the pdel with the given call
\* number, and what became of it.
BatchDelete(call, keys, state, error) ==
  [call |-> call, keys |-> keys, state |-> state, error |-> error]

\* No pdel has been called: nothing is scanned, no delete is in flight.
NoPdel ==
  [op |-> "idle", call |-> 0, toScan |-> {}, dels |-> << >>,
   failedKeys |-> << >>, failedWith |-> << >>]

InitRedis ==
  /\ NoBackupSaver
  /\ prefixes = {NoPrefix}
  /\ cache \in RedisKeyspaces
  /\ pending = NoPdel
  /\ last = RedisOutcome("new", << >>, "ok", JsUndefined, << >>)
  /\ written = << >>
  /\ nOps = 0
  /\ listeners = "none"

\* The caller awaits each call on the adapter before the next one.
RedisCanCall == pending.op # "pdel" /\ nOps < MaxRedisCalls

\* A method that awaits one call of the client inside try/catch: it
\* returns the result, or throws a new Error whose cause is what the client
\* rejected with.
redisCall(op, m, keys, fails, message, result, keyspace) ==
  /\ RedisCanCall
  /\ nOps' = nOps + 1
  /\ IF fails
       THEN /\ last' = RedisOutcome(op, keys, "error",
                         WrappedError(message, ClientError(nOps + 1)),
                         <<ClientCall(m, keys, ClientError(nOps + 1))>>)
            /\ cache' = cache
       ELSE /\ last' = RedisOutcome(op, keys, "ok", result,
                         <<ClientCall(m, keys, NoError)>>)
            /\ cache' = keyspace
  /\ UNCHANGED <<backupVars, listeners, prefixes, pending, written>>

\* RedisCacheAdapter.get
RedisGet(key, fails) ==
  redisCall("redis.get", "get", <<key>>, fails,
            "Failed to get key from Redis.", engineGet(cache, key), cache)

\* RedisCacheAdapter.mget
RedisMget(keys, fails) ==
  redisCall("redis.mget", "mget", keys, fails,
            "Failed to get keys from Redis.",
            [i \in 1..Len(keys) |-> engineGet(cache, keys[i])], cache)

\* RedisCacheAdapter.set
RedisSet(key, value, ttlMs, fails) ==
  redisCall("redis.set", "set", <<key>>, fails,
            "Failed to set key in Redis.", JsUndefined,
            engineSet(cache, key, value, ttlMs))

\* The keyspace after MSET of the entries: the keys hold the values and
\* have no expiry.
RECURSIVE redisMset(_, _)
redisMset(m, entries) ==
  IF entries = << >>
    THEN m
    ELSE redisMset(engineSet(m, Head(entries)[1], Head(entries)[2], NoExpiry),
                   Tail(entries))

\* The keyspace after the transaction of PEXPIREs.
RECURSIVE redisPexpire(_, _)
redisPexpire(m, entries) ==
  IF entries = << >>
    THEN m
    ELSE redisPexpire(
           [m EXCEPT ![Head(entries)[1]].ttl = Head(entries)[3]], Tail(entries))

\* RedisCacheAdapter.mset: MSET, then one transaction of PEXPIREs; either
\* call of the client may reject.
RedisMset(entries, failsAt) ==
  LET keys == [i \in 1..Len(entries) |-> entries[i][1]]
      message == "Failed to set keys in Redis."
  IN  /\ RedisCanCall
      /\ nOps' = nOps + 1
      /\ IF failsAt = "mset"
           THEN /\ last' = RedisOutcome("redis.mset", keys, "error",
                             WrappedError(message, ClientError(nOps + 1)),
                             <<ClientCall("mset", keys, ClientError(nOps + 1))>>)
                /\ cache' = cache
           ELSE IF failsAt = "exec"
           THEN /\ last' = RedisOutcome("redis.mset", keys, "error",
                             WrappedError(message, ClientError(nOps + 1)),
                             <<ClientCall("mset", keys, NoError),
                               ClientCall("exec", keys, ClientError(nOps + 1))>>)
                /\ cache' = redisMset(cache, entries)
           ELSE /\ last' = RedisOutcome("redis.mset", keys, "ok", JsUndefined,
                             <<ClientCall("mset", keys, NoError),
                               ClientCall("exec", keys, NoError)>>)
                /\ cache' = redisPexpire(redisMset(cache, entries), entries)
      /\ UNCHANGED <<backupVars, listeners, prefixes, pending, written>>

\* RedisCacheAdapter.del
RedisDel(key, fails) ==
  redisCall("redis.del", "del", <<key>>, fails,
            "Failed to delete key from Redis.", JsUndefined,
            engineDelete(cache, key))

\* RedisCacheAdapter.mdel
RedisMdel(keys, fails) ==
  redisCall("redis.mdel", "del", keys, fails,
            "Failed to delete keys from Redis.", JsUndefined,
            adapterMdel(cache, keys))

\* EXISTS: how many of the keys exist, a key named twice counted twice.
RECURSIVE redisExists(_, _)
redisExists(m, keys) ==
  IF keys = << >>
    THEN 0
    ELSE (IF Head(keys) \in DOMAIN m THEN 1 ELSE 0) + redisExists(m, Tail(keys))

\* RedisCacheAdapter.has
RedisHas(key, fails) ==
  redisCall("redis.has", "exists", <<key>>, fails,
            "Failed to check if key exists in Redis.",
            redisExists(cache, <<key>>) = 1, cache)

\* RedisCacheAdapter.mhas
RedisMhas(keys, fails) ==
  redisCall("redis.mhas", "exists", keys, fails,
            "Failed to check if keys exist in Redis.",
            redisExists(cache, keys) = Len(keys), cache)

\* _getRemainingTtl: undefined for PTTL -2, Infinity for PTTL -1.
redisRemainingTtl(m, key) ==
  IF key \notin DOMAIN m
    THEN [defined |-> FALSE, infinite |-> FALSE, ms |-> 0]
    ELSE IF m[key].ttl = NoExpiry
    THEN [defined |-> TRUE, infinite |-> TRUE, ms |-> 0]
    ELSE [defined |-> TRUE, infinite |-> FALSE, ms |-> m[key].ttl]

\* RedisCacheAdapter.getRemainingTtl
RedisGetRemainingTtl(key, fails) ==
  redisCall("redis.getRemainingTtl", "pttl", <<key>>, fails,
            "Failed to get remaining TTL from Redis.",
            redisRemainingTtl(cache, key), cache)

\* The deletes of earlier pdel calls that have not settled yet.
inFlight(dels) == SelectSeq(dels, LAMBDA d : d.state = "inflight")

PdelMessage ==
  "Failed to delete keys from Redis. Some keys might have been deleted."

\* RedisCacheAdapter.pdel with the pattern *: FLUSHDB.
RedisPdelAll(fails) ==
  redisCall("redis.pdel", "flushdb", << <<"*">> >>, fails,
            "Failed to clear Redis.", JsUndefined, engineClear(cache))

\* RedisCacheAdapter.pdel with another pattern, up to the await of the
\* promise that the end of the scan resolves.
RedisPdelStart(pattern) ==
  /\ RedisCanCall
  /\ pattern # <<"*">>
  /\ nOps' = nOps + 1
  /\ pending' = [op |-> "pdel", call |-> nOps + 1,
                 toScan |-> {k \in DOMAIN cache : redisMatch(k, pattern)},
                 dels |-> inFlight(pending.dels),
                 failedKeys |-> << >>, failedWith |-> << >>]
  /\ last' = RedisOutcome("redis.pdel", <<pattern>>, "pending", JsUndefined,
                 <<ClientCall("scanStream", <<pattern>>, NoError)>>)
  /\ UNCHANGED <<backupVars, listeners, prefixes, cache, written>>

\* keys.on('data'): a batch that is not empty is deleted with one call of
\* the client, which nobody awaits.
RedisScanData(batch) ==
  /\ pending.op = "pdel"
  /\ batch \in Batches(pending.toScan)
  /\ pending.toScan # {}
  /\ pending' = [pending EXCEPT
                   !.toScan = @ \ Range(batch),
                   !.dels = IF Len(batch) > 0
                              THEN Append(@, BatchDelete(pending.call, batch,
                                                         "inflight", NoError))
                              ELSE @]
  /\ last' = [last EXCEPT !.calls =
                IF Len(batch) > 0
                  THEN Append(@, ClientCall("del", batch, NoError))
                  ELSE @]
  /\ UNCHANGED <<backupVars, listeners, prefixes, cache, written, nOps>>

\* keys.on('error'): pdel rejects with a new Error whose cause is the
\* stream's error.
RedisScanError ==
  /\ pending.op = "pdel"
  /\ pending' = [pending EXCEPT !.op = "returned"]
  /\ last' = [last EXCEPT
                !.status = "error",
                !.result = WrappedError(PdelMessage, ClientError(pending.call)),
                !.calls[1].error = ClientError(pending.call)]
  /\ UNCHANGED <<backupVars, listeners, prefixes, cache, written, nOps>>

\* keys.on('end'): the promise resolves and pdel looks at the failures
\* collected so far.
RedisScanEnd ==
  /\ pending.op = "pdel"
  /\ pending.toScan = {}
  /\ pending' = [pending EXCEPT !.op = "returned"]
  /\ last' = IF Len(pending.failedKeys) > 0
               THEN [last EXCEPT
                       !.status = "error",
                       !.result = AggregateError(pending.failedWith, PdelMessage,
                                                 pending.failedKeys)]
               ELSE [last EXCEPT !.status = "ok"]
  /\ UNCHANGED <<backupVars, listeners, prefixes, cache, written, nOps>>

\* A delete issued by a 'data' handler settles: the keys are gone, or the
\* catch handler adds the keys and the error to the arrays of its pdel.
RedisDelSettles(i, fails) ==
  /\ i \in 1..Len(pending.dels)
  /\ pending.dels[i].state = "inflight"
  /\ LET d == pending.dels[i]
         error == ClientError(10 * d.call + i)
     IN  IF fails
           THEN /\ pending' =
                     [pending EXCEPT
                        !.dels[i].state = "failed",
                        !.dels[i].error = error,
                        !.failedKeys = IF d.call = pending.call
                                         THEN @ \o d.keys ELSE @,
                        !.failedWith = IF d.call = pending.call
                                         THEN Append(@, error) ELSE @]
                /\ cache' = cache
           ELSE /\ pending' = [pending EXCEPT !.dels[i].state = "ok"]
                /\ cache' = adapterMdel(cache, d.keys)
  /\ UNCHANGED <<backupVars, listeners, prefixes, last, written, nOps>>

NextRedis ==
  \/ \E key \in Keys, fails \in BOOLEAN : RedisGet(key, fails)
  \/ \E keys \in KeyLists, fails \in BOOLEAN : RedisMget(keys, fails)
  \/ \E key \in Keys, value \in StoredTexts, ttlMs \in TtlsMs, fails \in BOOLEAN :
       RedisSet(key, value, ttlMs, fails)
  \/ \E entries \in ListsOf(EntriesMs) \ { << >> },
        failsAt \in {"none", "mset", "exec"} :
       RedisMset(entries, failsAt)
  \/ \E key \in Keys, fails \in BOOLEAN : RedisDel(key, fails)
  \/ \E keys \in KeyLists, fails \in BOOLEAN : RedisMdel(keys, fails)
  \/ \E key \in Keys, fails \in BOOLEAN : RedisHas(key, fails)
  \/ \E keys \in KeyLists, fails \in BOOLEAN : RedisMhas(keys, fails)
  \/ \E key \in Keys, fails \in BOOLEAN : RedisGetRemainingTtl(key, fails)
  \/ \E fails \in BOOLEAN : RedisPdelAll(fails)
  \/ \E pattern \in RedisPatterns : RedisPdelStart(pattern)
  \/ \E batch \in Batches(Keys) : RedisScanData(batch)
  \/ RedisScanError
  \/ RedisScanEnd
  \/ \E i \in 1..(2 * MaxRedisCalls), fails \in BOOLEAN : RedisDelSettles(i, fails)

SpecRedis == InitRedis /\ [][NextRedis]_vars

\* ------------------------------------------------------------------ claims

\* The value survives serialize followed by deserialize.
RoundTrips(value) == defaultDeserialize(defaultSerialize(value)) = value

\* The latest step was get(key) through a Cache whose own set(key, ...) is
\* the write that stored the entry now under that key: nothing wrote or
\* deleted the entry since.
GetAfterOwnSet ==
  /\ last.op = "get"
  /\ LET cacheKey == last.calls[1].keys[1]
     IN  /\ cacheKey \in DOMAIN written
         /\ written[cacheKey].op = "set"
         /\ written[cacheKey].prefix = last.prefix
         /\ written[cacheKey].key = last.keys[1]

\* The value that set stored, in a state where GetAfterOwnSet holds.
ValueSet == written[last.calls[1].keys[1]].value

\* C1 as stated: set(key, value, ttl) followed by get(key) on the same
\* Cache, with no write or delete of that key in between, returns a value
\* equal to value, for every value.
C1_SetThenGetReturnsValue == GetAfterOwnSet => last.result = ValueSet

\* C1 amended: set(key, value, ttl) followed by get(key) on the same Cache,
\* with no write or delete of that key in between, returns a value equal to
\* value whenever value survives the JSON round trip of the default
\* serializer (NaN comes back as null).
C1_SetThenGetRoundTrip ==
  (GetAfterOwnSet /\ RoundTrips(ValueSet)) => last.result = ValueSet

\* C1 witness: a get that follows the Cache's own set of a string.
C1_Witness ==
  /\ GetAfterOwnSet
  /\ RoundTrips(ValueSet)
  /\ last.result = JsString("x")

\* The adapter calls of an outcome that write or delete.
WriteCalls(outcome) ==
  SelectSeq(outcome.calls,
            LAMBDA c : c.m \in {"set", "mset", "del", "mdel", "pdel"})

\* The storage keys the first adapter call of the latest step asked for.
Asked == last'.calls[1].keys

\* The step starts a facade call of the given operation.
Starts(op) == last'.op = op /\ nOps' = nOps + 1

\* The step resumes the suspended call of the given operation after its
\* producer resolved.
Resumes(op) == pending.op = op /\ pending' = Idle

\* The positions of the batched get of this step whose key the engine did
\* not hold, in order.
MissedPositions ==
  SelectSeq([i \in 1..Len(Asked) |-> i], LAMBDA i : Asked[i] \notin DOMAIN cache)

\* C2: an mcached call with at least one missing key invokes its producer
\* exactly once, with the data items of the missing positions in their
\* original order, and returns a list as long as data that holds the
\* deserialized cached value at every hit position and the producer's j-th
\* output at the position of the j-th miss.
C2_ProducerGetsMissesInOrder ==
  [][/\ (Starts("mcached") /\ Len(MissedPositions) > 0) =>
          /\ last'.status = "pending"
          /\ last'.produced = <<missingDataOf(DataItems, MissedPositions)>>
     /\ (Resumes("mcached") /\ last'.status = "ok") =>
          /\ last'.produced = <<missingDataOf(DataItems, MissedPositions)>>
          /\ Len(last'.returned) = 1
          /\ Len(last'.result) = Len(last'.keys)
          /\ \A i \in 1..Len(last'.keys) :
               /\ last'.result[i] # JsHole
               /\ Asked[i] \in DOMAIN cache =>
                    last'.result[i] = defaultDeserialize(cache[Asked[i]].value)
          /\ \A j \in 1..Len(MissedPositions) :
               last'.result[MissedPositions[j]] = last'.returned[1][j]
    ]_vars

\* C2 witness: an mcached over two keys returned one cached value and one
\* produced value.
C2_Witness ==
  /\ last.op = "mcached"
  /\ last.status = "ok"
  /\ Len(last.keys) = 2
  /\ Len(last.produced) = 1
  /\ Len(last.produced[1]) = 1

\* C3: when the engine holds every key of an mcached call, the call returns
\* the cached values, never invokes the producer, issues no adapter write
\* and leaves the engine's entries and TTLs as they were.
C3_AllHitIsPureRead ==
  [][(Starts("mcached") /\ \A i \in 1..Len(Asked) : Asked[i] \in DOMAIN cache) =>
       /\ last'.status = "ok"
       /\ Len(last'.result) = Len(last'.keys)
       /\ \A i \in 1..Len(Asked) :
            last'.result[i] = defaultDeserialize(cache[Asked[i]].value)
       /\ last'.produced = << >>
       /\ WriteCalls(last') = << >>
       /\ cache' = cache
    ]_vars

\* C3 witness: an mcached over two cached keys returned without a producer.
C3_Witness ==
  /\ last.op = "mcached"
  /\ last.status = "ok"
  /\ Len(last.keys) = 2
  /\ last.produced = << >>

\* C4: when the producer of mcached resolves with a list whose length is
\* not the number of missing items, the call fails with the arity error,
\* issues no adapter write, and a get of every key that missed still
\* misses.
C4_ArityMismatchWritesNothing ==
  [][(Resumes("mcached") /\ Len(last'.returned[1]) # Len(MissedPositions)) =>
       /\ last'.status = "error"
       /\ last'.result = ArityError
       /\ WriteCalls(last') = << >>
       /\ cache' = cache
       /\ \A j \in 1..Len(MissedPositions) :
            getOf(cache', last'.prefix, last'.keys[MissedPositions[j]]) = JsUndefined
    ]_vars

\* C4 witness: an mcached failed because its producer returned too few
\* values.
C4_Witness ==
  /\ last.op = "mcached"
  /\ last.status = "error"
  /\ Len(last.returned[1]) < Len(last.produced[1])

\* The latest step finished an mcached call successfully.
McachedDone == last.op = "mcached" /\ last.status = "ok"

\* Every newly produced entry of the finished mcached call went out in one
\* batched set.
OneBatchedSet ==
  IF last.produced = << >>
    THEN WriteCalls(last) = << >>
    ELSE /\ Len(WriteCalls(last)) = 1
         /\ WriteCalls(last)[1].m = "mset"
         /\ Len(WriteCalls(last)[1].entries) = Len(last.returned[1])

\* C5 as stated: after a successful mcached, get(keyFn(data[i], i)) returns
\* the i-th element mcached returned, for every position i, and the new
\* entries were persisted by a single batched set.
C5_GetAfterMcached ==
  McachedDone =>
    /\ \A i \in 1..Len(last.keys) :
         getOf(cache, last.prefix, last.keys[i]) = last.result[i]
    /\ OneBatchedSet

\* The keys of the finished mcached call are pairwise distinct and every
\* value it returned survives the serializer's round trip.
DistinctKeysAndRoundTrips ==
  /\ \A i, j \in 1..Len(last.keys) : last.keys[i] = last.keys[j] => i = j
  /\ \A i \in 1..Len(last.result) : RoundTrips(last.result[i])

\* C5 amended: after a successful mcached whose keys are pairwise distinct
\* and whose produced values survive the JSON round trip of the default
\* serializer, get(keyFn(data[i], i)) returns the i-th element mcached
\* returned, for every position i; in every successful mcached the new
\* entries were persisted by a single batched set.
C5_GetAfterMcachedDistinct ==
  McachedDone =>
    /\ DistinctKeysAndRoundTrips =>
         \A i \in 1..Len(last.keys) :
           getOf(cache, last.prefix, last.keys[i]) = last.result[i]
    /\ OneBatchedSet

\* C5 witness: an mcached over two distinct keys stored a produced string
\* next to a cached value.
C5_Witness ==
  /\ McachedDone
  /\ Len(last.keys) = 2
  /\ DistinctKeysAndRoundTrips
  /\ Len(last.produced) = 1
  /\ Len(last.returned[1]) = 1

\* C6: cached called while the engine holds the key returns the
\* deserialized stored value, never invokes the producer and issues no
\* adapter write.
C6_CachedHitIsPureRead ==
  [][(Starts("cached") /\ Asked[1] \in DOMAIN cache) =>
       /\ last'.status = "ok"
       /\ last'.result = defaultDeserialize(cache[Asked[1]].value)
       /\ last'.produced = << >>
       /\ WriteCalls(last') = << >>
       /\ cache' = cache
    ]_vars

\* C6 witness: a cached call returned a stored value without a producer.
C6_Witness ==
  /\ last.op = "cached"
  /\ last.status = "ok"
  /\ last.produced = << >>

\* What C7 says of the miss path, up to the value a following get returns:
\* the producer runs exactly once, the produced value is stored under the
\* namespaced key with the TTL resolved against it and is returned, and a
\* following get or cached finds the key.
CachedMissStores ==
  /\ (Starts("cached") /\ Asked[1] \notin DOMAIN cache) =>
       /\ last'.status = "pending"
       /\ Len(last'.produced) = 1
  /\ Resumes("cached") =>
       LET value == last'.returned[1]
           cacheKey == last'.prefix \o
                         (IF last'.prefix = << >> THEN << >> ELSE <<":">>) \o
                         last'.keys[1]
       IN  /\ last'.status = "ok"
           /\ Len(last'.produced) = 1
           /\ last'.result = value
           /\ WriteCalls(last') =
                <<AdapterCall("set", <<cacheKey>>,
                    <<<<cacheKey, defaultSerialize(value),
                        ttlToMs(pending.ttl, <<value>>)>>>>)>>
           /\ cacheKey \in DOMAIN cache'
           /\ cache'[cacheKey] = [value |-> defaultSerialize(value),
                                  ttl |-> ttlToMs(pending.ttl, <<value>>)]
           /\ hasOf(cache', last'.prefix, last'.keys[1])

\* C7 as stated: cached on an absent key runs the producer once, stores and
\* returns the produced value, and an immediately following get (or cached)
\* is a hit that returns that value.
C7_CachedMissThenHit ==
  [][/\ CachedMissStores
     /\ Resumes("cached") =>
          getOf(cache', last'.prefix, last'.keys[1]) = last'.returned[1]
    ]_vars

\* C7 amended: cached on an absent key runs the producer once, stores the
\* produced value under the namespaced key with the TTL resolved against it
\* and returns it; an immediately following get (or cached) is a hit that
\* returns the deserialized stored value, which equals the produced value
\* whenever that value survives the JSON round trip of the default
\* serializer.
C7_CachedMissThenHitRoundTrip ==
  [][/\ CachedMissStores
     /\ Resumes("cached") =>
          /\ getOf(cache', last'.prefix, last'.keys[1]) =
               defaultDeserialize(defaultSerialize(last'.returned[1]))
          /\ RoundTrips(last'.returned[1]) =>
               getOf(cache', last'.prefix, last'.keys[1]) = last'.returned[1]
    ]_vars

\* C7 witness: a cached call missed, produced a string and stored it.
C7_Witness ==
  /\ last.op = "cached"
  /\ last.status = "ok"
  /\ Len(last.produced) = 1
  /\ last.result = JsString("x")
  /\ getOf(cache, last.prefix, last.keys[1]) = JsString("x")

\* The call of the latest step names the one logical key and no other.
CallFor(key) ==
  /\ Len(last'.keys) > 0
  /\ \A i \in 1..Len(last'.keys) : last'.keys[i] = key

\* C8: a set, mset, cached, mcached, del or mdel for logical key k through
\* a Cache with a non-empty prefix leaves what get(k), has(k) and
\* getRemainingTtl(k) return through every Cache with another non-empty
\* prefix as it was.
C8_NamespaceIsolation ==
  [][last'.op \in {"set", "mset", "cached", "mcached", "del", "mdel"} =>
       \A other \in prefixes, key \in PathKeys :
         (CallFor(key) /\ other # << >> /\ last'.prefix # << >>
            /\ other # last'.prefix) =>
           /\ getOf(cache', other, key) = getOf(cache, other, key)
           /\ hasOf(cache', other, key) = hasOf(cache, other, key)
           /\ getRemainingTtlOf(cache', other, key) =
                getRemainingTtlOf(cache, other, key)
    ]_vars

\* C8 witness: a Cache with a non-empty prefix has just written logical key
\* k, for which a Cache with another non-empty prefix holds an entry of its
\* own.
C8_Witness ==
  /\ last.op \in {"set", "mset", "cached", "mcached"}
  /\ last.status = "ok"
  /\ last.prefix # << >>
  /\ last.keys = <<KeyK>>
  /\ \E other \in prefixes :
       /\ other # << >>
       /\ other # last.prefix
       /\ hasOf(cache, other, KeyK)
       /\ hasOf(cache, last.prefix, KeyK)
       /\ written[getCacheKey(other, KeyK)].prefix = other

\* C9: the storage key of an entry written through a Cache with a non-empty
\* prefix is the storage key of no logical key of a Cache with another
\* non-empty prefix.
C9_NoStorageKeyCollision ==
  \A cacheKey \in DOMAIN written :
    \A other \in prefixes, key \in PathKeys :
      (other # << >> /\ written[cacheKey].prefix # << >>
         /\ other # written[cacheKey].prefix) =>
        getCacheKey(other, key) # cacheKey

\* C10: clear through a Cache with a non-empty prefix removes every entry
\* written through that Cache and leaves every entry written through a
\* Cache with another prefix or with none as it was; clear through a Cache
\* with no prefix removes every entry.
C10_ClearScopedToNamespace ==
  [][Starts("clear") =>
       IF last'.prefix = << >>
         THEN DOMAIN cache' = {}
         ELSE \A cacheKey \in DOMAIN cache :
                IF written[cacheKey].prefix = last'.prefix
                  THEN cacheKey \notin DOMAIN cache'
                  ELSE /\ cacheKey \in DOMAIN cache'
                       /\ cache'[cacheKey] = cache[cacheKey]
    ]_vars

\* C19: mget of an empty list of keys returns the empty list, makes no
\* adapter call and emits no hit/miss signal.
C19_MgetOfNothing ==
  [][(Starts("mget") /\ last'.keys = << >>) =>
       /\ last'.status = "ok"
       /\ last'.result = << >>
       /\ last'.calls = << >>
       /\ last'.emits = << >>
       /\ cache' = cache
    ]_vars

\* C19 witness: an mget of no keys has returned while the engine holds an
\* entry.
C19_Witness ==
  /\ last.op = "mget"
  /\ last.keys = << >>
  /\ last.status = "ok"
  /\ DOMAIN cache # {}

\* C20: mget of a non-empty list of keys makes one batched adapter get over
\* the namespaced keys and returns a list as long as keys whose position i
\* holds the deserialized value stored under keys[i], or undefined if the
\* engine does not hold that key.
C20_MgetInOrder ==
  [][(Starts("mget") /\ last'.keys # << >>) =>
       LET keys == last'.keys
           StorageKey(i) == IF last'.prefix = << >>
                              THEN keys[i]
                              ELSE last'.prefix \o <<":">> \o keys[i]
       IN  /\ last'.status = "ok"
           /\ Len(last'.calls) = 1
           /\ last'.calls[1].m = "mget"
           /\ last'.calls[1].keys = [i \in 1..Len(keys) |-> StorageKey(i)]
           /\ Len(last'.result) = Len(keys)
           /\ \A i \in 1..Len(keys) :
                last'.result[i] =
                  IF StorageKey(i) \in DOMAIN cache
                    THEN defaultDeserialize(cache[StorageKey(i)].value)
                    ELSE JsUndefined
           /\ cache' = cache
    ]_vars

\* C20 witness: an mget of two keys through a prefixed Cache returned
\* undefined for the first and a stored value for the second.
C20_Witness ==
  /\ last.op = "mget"
  /\ last.status = "ok"
  /\ last.prefix # << >>
  /\ Len(last.keys) = 2
  /\ last.result[1] = JsUndefined
  /\ last.result[2] = JsString("x")

\* What a read-path call returns, whether it succeeds and the adapter calls
\* it makes, on a Cache nobody listens to.
SameAsUnobserved ==
  /\ Starts("get") =>
       /\ last'.status = "ok"
       /\ last'.result = getOf(cache, last'.prefix, last'.keys[1])
       /\ Len(last'.calls) = 1
  /\ Starts("mget") =>
       /\ last'.status = "ok"
       /\ Len(last'.result) = Len(last'.keys)
       /\ \A i \in 1..Len(last'.keys) :
            last'.result[i] = getOf(cache, last'.prefix, last'.keys[i])
       /\ Len(last'.calls) = IF last'.keys = << >> THEN 0 ELSE 1
  /\ Starts("cached") =>
       IF hasOf(cache, last'.prefix, last'.keys[1])
         THEN /\ last'.status = "ok"
              /\ last'.result = getOf(cache, last'.prefix, last'.keys[1])
         ELSE /\ last'.status = "pending"
              /\ Len(last'.produced) = 1
  /\ Starts("mcached") =>
       IF \A i \in 1..Len(last'.keys) : hasOf(cache, last'.prefix, last'.keys[i])
         THEN /\ last'.status = "ok"
              /\ \A i \in 1..Len(last'.keys) :
                   last'.result[i] = getOf(cache, last'.prefix, last'.keys[i])
         ELSE /\ last'.status = "pending"
              /\ Len(last'.produced) = 1

\* C18: for get, mget, cached and mcached in every state of the engine, the
\* value returned, the success or failure of the call and the adapter
\* calls made are those of a Cache without listeners, whether or not 'read'
\* listeners are registered and whatever they do.
C18_ReadSignalIsSideChannel == [][SameAsUnobserved]_vars

\* ---- Claims about backup persistence ----

\* The step makes a saveCacheBackup call.
SaveCalled == Len(saves') = Len(saves) + 1

\* The saveCacheBackup call of this step.
Newest == saves'[Len(saves')]

\* The write in flight settles in this step.
WriteSettles == inflight.active /\ ~inflight'.active

\* The step is a mutation of the adapter.
Mutates ==
  /\ nOps' = nOps + 1
  /\ last'.op \in {"adapter.set", "adapter.mset", "adapter.del",
                   "adapter.mdel", "adapter.pdel"}

\* Every entry of the map m with the time it expires, counted from t.
SnapshotOf(m, t) ==
  [key \in DOMAIN m |->
     [isNull |-> FALSE, value |-> m[key].value, expireAtMs |-> t + m[key].ttl]]

\* The file with the JSON text of a snapshot.
FileOf(snapshot) ==
  [exists |-> TRUE, text |-> [kind |-> "object", entries |-> snapshot]]

\* C11: a saveCacheBackup call made while an earlier save of the same saver
\* is in flight resolves without writing, and its snapshot is never
\* written: the write in flight is not replaced, at most one write is in
\* flight, and when it succeeds the file holds the first call's snapshot.
C11_SaveCoalescing ==
  [][/\ (SaveCalled /\ inflight.active) =>
          /\ Newest.outcome = "dropped"
          /\ inflight' = inflight
          /\ file' = file
          /\ saving'
     /\ \A i \in 1..Len(saves) :
          saves[i].outcome = "dropped" => saves'[i].outcome = "dropped"
     /\ Cardinality({i \in 1..Len(saves') : saves'[i].outcome = "writing"}) <= 1
     /\ (WriteSettles /\ saves'[inflight.save].outcome = "written") =>
          file' = FileOf(saves[inflight.save].snapshot)
    ]_vars

\* C11 witness: the first of two saves was written, the second was called
\* with another snapshot while the first was in flight and was dropped, and
\* the file holds the first snapshot.
C11_Witness ==
  /\ Len(saves) = 2
  /\ saves[1].outcome = "written"
  /\ saves[2].outcome = "dropped"
  /\ saves[1].snapshot # saves[2].snapshot
  /\ file = FileOf(saves[1].snapshot)
  /\ ~saving

\* C12: whenever a save attempt that set the saving flag finishes, by the
\* write succeeding, by the write failing or by throwing at any other step,
\* the flag is false again, so a saveCacheBackup call made while no write
\* is in flight is never dropped.
C12_FlagAlwaysReleased ==
  [][/\ (WriteSettles \/ (SaveCalled /\ Newest.outcome = "threw")) => ~saving'
     /\ (SaveCalled /\ ~inflight.active) => Newest.outcome # "dropped"
    ]_vars

\* C13: every mutating operation of the memory adapter built with a backup
\* saver (set, mset, del, mdel, and pdel for every pattern) requests a save
\* with a snapshot of the map as the mutation left it.
C13_EveryMutationSaves ==
  [][Mutates =>
       /\ SaveCalled
       /\ Newest.by = last'.op
       /\ Newest.snapshot = SnapshotOf(cache', now)
    ]_vars

\* C14: a mutating operation of the memory adapter resolves in the step
\* that starts its save, also when the write is then in flight, and a
\* write that fails leaves the map as it was.
C14_MutationDoesNotAwaitSave ==
  [][/\ Mutates => last'.status = "ok"
     /\ (WriteSettles /\ saves'[inflight.save].outcome = "failed") =>
          /\ cache' = cache
          /\ adapter' = adapter
    ]_vars

\* C14 witness: the write started by a set failed after the set had
\* resolved, and the map still holds what the set stored.
C14_Witness ==
  /\ Len(saves) = 1
  /\ saves[1].by = "adapter.set"
  /\ saves[1].outcome = "failed"
  /\ last.op = "write"
  /\ last.status = "error"
  /\ DOMAIN cache # {}

\* C15: the text of a write is the snapshot of the map as the mutation that
\* started the save left it; a mutation made while that write is in flight
\* changes neither the write nor the file, and the file changes only when
\* a write settles, so the later mutation shows in the file only through a
\* later save that is not dropped.
C15_FileHoldsSnapshotAtStart ==
  [][/\ (Mutates /\ SaveCalled /\ Newest.outcome = "writing") =>
          inflight' = [active |-> TRUE,
                       text |-> [kind |-> "object",
                                 entries |-> SnapshotOf(cache', now)],
                       save |-> Len(saves')]
     /\ (Mutates /\ inflight.active) =>
          /\ inflight' = inflight
          /\ file' = file
     /\ (WriteSettles /\ saves'[inflight.save].outcome = "written") =>
          file' = [exists |-> TRUE, text |-> inflight.text]
     /\ file' # file => WriteSettles
    ]_vars

\* C15 witness: the save of a first mutation was written while a second
\* mutation, whose save was dropped, had already changed the map: the file
\* holds the first snapshot and not the map as it is.
C15_Witness ==
  /\ Len(saves) = 2
  /\ saves[1].by = "adapter.set"
  /\ saves[1].outcome = "written"
  /\ saves[2].by = "adapter.set"
  /\ saves[2].outcome = "dropped"
  /\ file = FileOf(saves[1].snapshot)
  /\ file # FileOf(SnapshotOf(cache, now))

\* The step constructs an adapter over a backup file that holds entries.
ConstructsFromBackup ==
  /\ nOps' = nOps + 1
  /\ last'.op = "construct"
  /\ file.exists
  /\ file.text.kind = "object"
  /\ \A key \in DOMAIN file.text.entries : ~file.text.entries[key].isNull

\* C16: an adapter constructed with a backup saver holds every entry of the
\* snapshot whose expireAtMs is greater than the current time, with its
\* value and the TTL expireAtMs - now, and no entry whose expireAtMs is at
\* or before the current time.
C16_ImportKeepsLiveEntries ==
  [][ConstructsFromBackup =>
       /\ last'.status = "ok"
       /\ DOMAIN cache' \subseteq DOMAIN file.text.entries
       /\ \A key \in DOMAIN file.text.entries :
            IF file.text.entries[key].expireAtMs > now'
              THEN /\ key \in DOMAIN cache'
                   /\ cache'[key].value = file.text.entries[key].value
                   /\ cache'[key].ttl = file.text.entries[key].expireAtMs - now'
              ELSE key \notin DOMAIN cache'
    ]_vars

\* C16 witness: an adapter constructed from a backup of two entries holds
\* the one that is still to expire and not the one that expires now.
C16_Witness ==
  /\ last.op = "construct"
  /\ nOps > 0
  /\ file.exists
  /\ file.text.kind = "object"
  /\ DOMAIN file.text.entries = {KeyK, KeyBK}
  /\ file.text.entries[KeyK].expireAtMs = now
  /\ DOMAIN cache = {KeyBK}

\* C17: whatever the backup file holds, constructing the adapter with the
\* saver succeeds, and a file that is missing, does not parse or is not a
\* mapping from keys to entries is loaded as the empty snapshot.
C17_LoadNeverFatal ==
  last.op = "construct" =>
    /\ last.status = "ok"
    /\ adapter = "ok"
    /\ (~file.exists \/ file.text.kind # "object"
          \/ \E key \in DOMAIN file.text.entries : file.text.entries[key].isNull)
         => cache = << >>

\* ---- Claims about mhas, deletion and the read signal ----

\* The storage key of a logical key in the namespace of a prefix.
Namespaced(prefix, key) ==
  IF prefix = << >> THEN key ELSE prefix \o <<":">> \o key

\* C21: mhas(keys) returns true if and only if the backend holds every
\* requested key in the Cache's namespace: true for the empty list, false
\* as soon as one key is absent.
C21_MhasIffAllExist ==
  [][Starts("mhas") =>
       /\ last'.status = "ok"
       /\ last'.result =
            (\A i \in 1..Len(last'.keys) :
               Namespaced(last'.prefix, last'.keys[i]) \in DOMAIN cache)
       /\ last'.keys = << >> => last'.result = TRUE
       /\ cache' = cache
    ]_vars

\* C21 witness: mhas of two keys returned false although the backend holds
\* the first of them.
C21_Witness ==
  /\ last.op = "mhas"
  /\ Len(last.keys) = 2
  /\ last.result = FALSE
  /\ Namespaced(last.prefix, last.keys[1]) \in DOMAIN cache

\* The step is a pdel call on the memory adapter.
AdapterPdelCalled == nOps' = nOps + 1 /\ last'.op = "adapter.pdel"

\* C25: pdel of the memory adapter with the pattern * removes every entry;
\* with any other pattern it removes exactly the storage keys the glob
\* matches, and every other entry keeps its value and its TTL.
C25_PdelRemovesMatches ==
  [][AdapterPdelCalled =>
       LET pattern == last'.keys[1]
       IN  /\ last'.status = "ok"
           /\ IF pattern = <<"*">>
                THEN DOMAIN cache' = {}
                ELSE /\ DOMAIN cache' =
                          {k \in DOMAIN cache : ~globMatch(k, pattern)}
                     /\ \A k \in DOMAIN cache' : cache'[k] = cache[k]
    ]_vars

\* C25 witness: a pdel with the pattern b:* removed the entry b:k and left
\* the entry k with its value and the time it expires.
C25_Witness ==
  /\ Len(saves) = 2
  /\ DOMAIN saves[1].snapshot = {KeyK, KeyBK}
  /\ saves[2].by = "adapter.pdel"
  /\ last.op = "adapter.pdel"
  /\ last.keys = << <<"b", ":", "*">> >>
  /\ DOMAIN cache = {KeyK}
  /\ saves[2].snapshot = (KeyK :> saves[1].snapshot[KeyK])

\* C27: del(key) and mdel(keys) remove exactly the namespaced entries of
\* the given keys: afterwards get returns undefined and has returns false
\* for each of them, every other entry is as it was, and the call succeeds
\* whether or not the keys were there.
C27_DeleteRemovesExactlyKeys ==
  [][(Starts("del") \/ Starts("mdel")) =>
       LET gone == {Namespaced(last'.prefix, last'.keys[i]) :
                      i \in 1..Len(last'.keys)}
       IN  /\ last'.status = "ok"
           /\ \A i \in 1..Len(last'.keys) :
                /\ getOf(cache', last'.prefix, last'.keys[i]) = JsUndefined
                /\ ~hasOf(cache', last'.prefix, last'.keys[i])
           /\ DOMAIN cache' = DOMAIN cache \ gone
           /\ \A k \in DOMAIN cache' : cache'[k] = cache[k]
    ]_vars

\* C27 witness: an mdel of two keys the engine did not hold in the Cache's
\* namespace succeeded and left the entry of another namespace in place.
C27_Witness ==
  /\ last.op = "mdel"
  /\ last.status = "ok"
  /\ last.keys = <<KeyK, KeyBK>>
  /\ last.prefix = PrefixB
  /\ DOMAIN cache = {KeyK}

\* The events a call that starts in this step emits when it reads the
\* given logical keys.
SignalsFor(operation) ==
  [i \in 1..Len(last'.keys) |->
     [key |-> last'.keys[i],
      hit |-> Namespaced(last'.prefix, last'.keys[i]) \in DOMAIN cache,
      operation |-> operation]]

\* C29: get, mget, cached and mcached emit exactly one 'read' signal per
\* logical key they examined, with the logical key, hit = true exactly when
\* the adapter returned a value for it and the kind of the operation; the
\* rest of cached and mcached emits nothing more, and set, mset, del, mdel,
\* pdel, clear, has, mhas and getRemainingTtl emit no signal.
C29_OneSignalPerKeyRead ==
  [][/\ Starts("get") => last'.emits = SignalsFor("Get")
     /\ Starts("mget") => last'.emits = SignalsFor("Mget")
     /\ Starts("cached") => last'.emits = SignalsFor("Cached")
     /\ Starts("mcached") => last'.emits = SignalsFor("Mcached")
     /\ (Resumes("cached") \/ Resumes("mcached")) => last'.emits = pending.emits
     /\ last'.op \in {"set", "mset", "del", "mdel", "pdel", "clear", "has",
                      "mhas", "getRemainingTtl"} => last'.emits = << >>
    ]_vars

\* C29 witness: an mcached over two keys emitted a hit for the first and a
\* miss for the second.
C29_Witness ==
  /\ last.op = "mcached"
  /\ Len(last.emits) = 2
  /\ last.emits[1] = [key |-> last.keys[1], hit |-> TRUE, operation |-> "Mcached"]
  /\ last.emits[2] = [key |-> last.keys[2], hit |-> FALSE, operation |-> "Mcached"]

\* ---- Claims about TTL expressions and makeKey ----

\* The duration strings among the strings passed as TTL here.
DurationStrings == {"1s", "2s"}

\* The TTL expression cannot be resolved for a call that resolves it for n
\* values: a string that is no duration, a function that throws.
ResolutionFails(ttl, n) ==
  \/ ttl.kind = "string" /\ ttl.s \notin DurationStrings
  \/ ttl.kind = "function" /\ ttl.f \in {"throws", "nestedThrows"}
  \/ ttl.kind = "function" /\ ttl.f = "throwsAfterFirst" /\ n > 1

\* The step in which a call resolves its TTL expression for at least one
\* value.
ResolvesTtl ==
  \/ Starts("set")
  \/ Starts("mset") /\ Len(last'.keys) > 0
  \/ Resumes("cached")
  \/ /\ Resumes("mcached")
     /\ Len(last'.returned[1]) = Len(pending.missingIndices)
     /\ Len(last'.returned[1]) > 0

\* How many values the call of this step resolves its TTL expression for.
ResolvedFor ==
  IF last'.op = "mset" THEN Len(last'.keys)
  ELSE IF last'.op = "mcached" THEN Len(last'.returned[1])
  ELSE 1

\* C26: when resolving the TTL expression fails in set, mset, cached or
\* mcached (a string that is no duration, a TTL function that throws), the
\* call fails with that error, issues no adapter write and stores no entry,
\* not even those of the items before the failing one.
C26_TtlFailureWritesNothing ==
  [][(ResolvesTtl /\ ResolutionFails(last'.ttl, ResolvedFor)) =>
       /\ last'.status = "error"
       /\ last'.result = TtlError
       /\ WriteCalls(last') = << >>
       /\ cache' = cache
    ]_vars

\* C28: mset invokes makeKey exactly once per item, with the item and its
\* index.
C28_MakeKeyOncePerItem ==
  (last.op = "mset" /\ last.status = "ok") =>
    /\ Len(last.madeKeys) = Len(last.keys)
    /\ \A i \in 1..Len(last.madeKeys) : last.madeKeys[i][2] = i - 1

\* What the claim says ttlToMs returns for a TTL expression that resolves,
\* given the arguments the function is called with.
ExpectedMs(ttl, valueIsString, index) ==
  CASE ttl.kind = "number" -> ttl.n
    [] ttl.kind = "string" -> (IF ttl.s = "1s" THEN 1000 ELSE 2000)
    [] ttl.kind = "function" /\ ttl.f \in {"byValue", "nested"} ->
         (IF valueIsString THEN 1000 ELSE 2000)
    [] ttl.kind = "function" /\ ttl.f = "byIndex" ->
         (IF index = 0 THEN 1000 ELSE 2000)
    [] ttl.kind = "function" /\ ttl.f = "throwsAfterFirst" -> 1000

\* The entries of the adapter write of the set or mset of this step.
EntriesWritten == last'.calls[1].entries

\* C30: ttlToMs returns a number unchanged, zero and negative numbers
\* included, the millisecond count of a duration string, and for a
\* function what resolving its result with the same arguments gives, down
\* to the first result that is no function; set resolves with the value,
\* mset with the item and its index.
C30_TtlToMs ==
  [][((Starts("set") \/ Starts("mset")) /\ last'.status = "ok"
        /\ ~ResolutionFails(last'.ttl, Len(last'.keys))) =>
       \A i \in 1..Len(last'.keys) :
         EntriesWritten[i][3] =
           ExpectedMs(last'.ttl, EntriesWritten[i][2] # "null", i - 1)
    ]_vars

\* C30 witness: a set of NaN with a TTL function that returns a function
\* that returns a duration string stored the entry with that duration.
C30_Witness ==
  /\ last.op = "set"
  /\ last.status = "ok"
  /\ last.ttl = TtlFunction("nested")
  /\ last.calls[1].entries[1][2] = "null"
  /\ last.calls[1].entries[1][3] = 2000

\* ---- Claims about concurrent callers ----

\* The caller whose call starts or resumes in this step.
Stepping(c) == pending'[c] # pending[c]

\* C22: cached and mcached give no stampede protection. A call that finds
\* a key missing invokes its producer although another caller's call for
\* the same key is awaiting its own, and every call whose producer resolved
\* writes what it produced over whatever is stored, so that the value
\* stored after both calls is the one written last.
C22_NoStampedeProtection ==
  [][\A c \in Callers :
       /\ (Stepping(c) /\ pending[c].op \in {"idle", "returned"}
             /\ \E i \in 1..Len(last'.keys) :
                  Namespaced(last'.prefix, last'.keys[i]) \notin DOMAIN cache) =>
            /\ last'.status = "pending"
            /\ Len(last'.produced) = 1
            /\ pending'[c].op = last'.op
       /\ (Stepping(c) /\ pending[c].op = "cached" /\ last'.status = "ok") =>
            /\ Len(WriteCalls(last')) = 1
            /\ Namespaced(last'.prefix, last'.keys[1]) \in DOMAIN cache'
            /\ cache'[Namespaced(last'.prefix, last'.keys[1])].value =
                 defaultSerialize(last'.returned[1])
       /\ (Stepping(c) /\ pending[c].op = "mcached" /\ last'.status = "ok") =>
            LET produced == last'.returned[1]
                KeyAt(j) == last'.keys[pending[c].missingIndices[j]]
            IN  /\ Len(WriteCalls(last')) = 1
                /\ \A j \in 1..Len(produced) :
                     (\A l \in (j + 1)..Len(produced) : KeyAt(l) # KeyAt(j)) =>
                       /\ Namespaced(last'.prefix, KeyAt(j)) \in DOMAIN cache'
                       /\ cache'[Namespaced(last'.prefix, KeyAt(j))].value =
                            defaultSerialize(produced[j])
    ]_vars

\* C22 witness: two callers called cached for the same missing key, each
\* invoked its producer, the two producers resolved with different values,
\* and the engine holds the value of the call that finished last.
C22_Witness ==
  /\ pending[1].op = "returned"
  /\ pending[2].op = "returned"
  /\ pending[1].outcome.op = "cached"
  /\ pending[2].outcome.op = "cached"
  /\ pending[1].outcome.keys = pending[2].outcome.keys
  /\ Len(pending[1].outcome.produced) = 1
  /\ Len(pending[2].outcome.produced) = 1
  /\ pending[1].outcome.status = "ok"
  /\ pending[2].outcome.status = "ok"
  /\ pending[1].outcome.result # pending[2].outcome.result
  /\ last = pending[2].outcome
  /\ getOf(cache, last.prefix, last.keys[1]) =
       defaultDeserialize(defaultSerialize(last.result))

\* ---- Claims about the Redis adapter ----

\* The call of the adapter that settles in this step.
RedisSettles ==
  /\ last' # last
  /\ last'.status \in {"ok", "error"}

\* The errors the client calls of the call that settles rejected with.
RejectedWith ==
  {last'.calls[i].error : i \in 1..Len(last'.calls)} \ {NoError}

\* A delete issued by a pdel rejects in this step.
BatchDeleteFails ==
  \E i \in 1..Len(pending.dels) :
    /\ pending.dels[i].state = "inflight"
    /\ pending'.dels[i].state = "failed"

\* The deletes of the pdel that awaits the end of its scan which have
\* rejected.
FailedDeletes ==
  SelectSeq(pending.dels,
            LAMBDA d : d.call = pending.call /\ d.state = "failed")

\* The scan of the pdel in progress ends in this step and pdel returns.
PdelReturns ==
  /\ pending.op = "pdel"
  /\ pending'.op = "returned"
  /\ last'.calls[1].error = NoError

\* C23: an operation of the Redis adapter one of whose calls of the client
\* rejects itself rejects with a new error that carries the original
\* failure: as its cause, or, for the deletes of pdel, among the errors of
\* the AggregateError. No failure of the client goes unreported: a delete
\* of pdel rejects only while pdel has not returned.
C23_ClientFailureIsWrapped ==
  [][/\ (RedisSettles /\ RejectedWith # {}) =>
          /\ last'.status = "error"
          /\ last'.result.name = "Error"
          /\ last'.result.cause \in RejectedWith
     /\ (PdelReturns /\ Len(FailedDeletes) > 0) =>
          /\ last'.status = "error"
          /\ \A j \in 1..Len(FailedDeletes) :
               FailedDeletes[j].error \in Range(last'.result.errors)
     /\ BatchDeleteFails => pending.op = "pdel"
    ]_vars

\* The keys of a list of batch deletes, in order.
RECURSIVE KeysOf(_)
KeysOf(dels) ==
  IF dels = << >> THEN << >> ELSE Head(dels).keys \o KeysOf(Tail(dels))

\* C24: when a delete of a scanned batch fails in a pdel with a pattern
\* other than *, pdel rejects with an AggregateError whose errors are the
\* failures of the deletes and whose cause.failedKeys are exactly the keys
\* of the batches whose delete failed; the failure of a delete is never
\* dropped, so none arrives after pdel has returned.
C24_PdelReportsFailedBatches ==
  [][/\ (PdelReturns /\ Len(FailedDeletes) > 0) =>
          /\ last'.status = "error"
          /\ last'.result.name = "AggregateError"
          /\ Len(last'.result.errors) = Len(FailedDeletes)
          /\ Range(last'.result.errors) =
               {FailedDeletes[j].error : j \in 1..Len(FailedDeletes)}
          /\ Range(last'.result.cause.failedKeys) = Range(KeysOf(FailedDeletes))
     /\ (PdelReturns /\ Len(FailedDeletes) = 0) => last'.status = "ok"
     /\ BatchDeleteFails =>
          \E i \in 1..Len(pending.dels) :
            /\ pending.dels[i].state = "inflight"
            /\ pending'.dels[i].state = "failed"
            /\ pending.dels[i].call = pending.call
            /\ pending.op = "pdel"
    ]_vars

\* The deletes issued by the pdel that awaits the end of its scan.
OwnDeletes ==
  SelectSeq(pending.dels, LAMBDA d : d.call = pending.call)

\* C38: when pdel with a pattern other than * resolves, every delete it
\* issued for a scanned batch has completed successfully, and no key of a
\* scanned batch is still in Redis.
C38_PdelResolvesAfterDeletes ==
  [][(PdelReturns /\ last'.status = "ok") =>
        /\ \A j \in 1..Len(OwnDeletes) : OwnDeletes[j].state = "ok"
        /\ Range(KeysOf(OwnDeletes)) \cap DOMAIN cache' = {}
    ]_vars

\* ---- Claims about mcached and its producer ----

\* The entries of the batched set an mcached issued after its producer
\* resolved.
McachedStored == last'.calls[2].entries

\* The index of the last entry of the list written under the key.
LastFor(entries, key) ==
  CHOOSE j \in 1..Len(entries) :
    /\ entries[j][1] = key
    /\ \A later \in (j + 1)..Len(entries) : entries[later][1] # key

\* C31: mcached resolves the TTL of each produced value with the value
\* and its index in the producer's output, whatever its position in the
\* data, and the engine holds each new entry with the TTL resolved for it;
\* mset resolves the TTL of each item with the item and its index.
C31_TtlPerProducedValue ==
  [][/\ (Resumes("mcached") /\ last'.status = "ok") =>
          /\ Len(McachedStored) = Len(last'.returned[1])
          /\ \A j \in 1..Len(McachedStored) :
               /\ McachedStored[j][3] =
                    ExpectedMs(last'.ttl,
                               last'.returned[1][j] = JsString("x"), j - 1)
               /\ McachedStored[j][1] \in DOMAIN cache'
               /\ cache'[McachedStored[j][1]].ttl =
                    McachedStored[LastFor(McachedStored, McachedStored[j][1])][3]
     /\ (Starts("mset") /\ last'.status = "ok") =>
          \A i \in 1..Len(last'.keys) :
            /\ EntriesWritten[i][3] =
                 ExpectedMs(last'.ttl,
                            EntriesWritten[i][2] = defaultSerialize(JsString("x")),
                            i - 1)
            /\ cache'[EntriesWritten[i][1]].ttl =
                 EntriesWritten[LastFor(EntriesWritten, EntriesWritten[i][1])][3]
    ]_vars

\* C31 witness: an mcached whose first key was a hit and whose second key
\* missed stored the produced value with the TTL its function gives for
\* index 0.
C31_Witness ==
  /\ last.op = "mcached"
  /\ last.status = "ok"
  /\ last.ttl = TtlFunction("byIndex")
  /\ Len(last.keys) = 2
  /\ Len(last.calls) = 2
  /\ last.calls[2].keys = <<last.calls[1].keys[2]>>
  /\ last.calls[2].entries[1][3] = 1000

\* ---- Claims about the backup snapshot ----

\* C32: the snapshot a mutation of the memory adapter hands to the saver
\* holds, for every entry of the map whose remaining TTL is not zero, the
\* entry's value with expireAtMs = now + remaining TTL, and holds no entry
\* whose remaining TTL is zero and no key the map does not hold.
C32_SnapshotOfLiveEntries ==
  [][(Mutates /\ SaveCalled) =>
       /\ \A key \in DOMAIN cache' :
            cache'[key].ttl # 0 =>
              /\ key \in DOMAIN Newest.snapshot
              /\ Newest.snapshot[key] =
                   [isNull |-> FALSE, value |-> cache'[key].value,
                    expireAtMs |-> now + cache'[key].ttl]
       /\ \A key \in DOMAIN Newest.snapshot :
            /\ key \in DOMAIN cache'
            /\ cache'[key].ttl # 0
    ]_vars

\* C32 witness: a mutation at a time after 0 left two entries in the map,
\* one with the remaining TTL zero, and handed the saver a snapshot of the
\* other one only.
C32_Witness ==
  /\ last.op \in {"adapter.set", "adapter.mset"}
  /\ now > 0
  /\ Len(saves) > 0
  /\ saves[Len(saves)].by = last.op
  /\ Cardinality(DOMAIN cache) = 2
  /\ Cardinality(DOMAIN saves[Len(saves)].snapshot) = 1
  /\ \E key \in DOMAIN cache : cache[key].ttl = 0

\* The saveCacheBackup calls whose write has not settled.
Writing == {i \in 1..Len(saves) : saves[i].outcome = "writing"}

\* C33: at most one write to the backup file is in flight at any moment,
\* however saveCacheBackup calls and the completions and failures of
\* writes interleave; the write in flight belongs to the one call that is
\* writing, and the flag is set while it lasts.
C33_AtMostOneWriteInFlight ==
  /\ Cardinality(Writing) <= 1
  /\ inflight.active => (saving /\ Writing = {inflight.save})
  /\ Writing # {} => inflight.active

\* C33 witness: a first write failed, a save called while it was in flight
\* was dropped, and a third save is writing alone.
C33_Witness ==
  /\ Len(saves) = 3
  /\ saves[1].outcome = "failed"
  /\ saves[2].outcome = "dropped"
  /\ saves[3].outcome = "writing"
  /\ inflight.active
  /\ inflight.save = 3

\* C34: the snapshot a mutation hands to the saver is taken inside the
\* mutating call and is the map exactly as that mutation left it; and a
\* save the adapter requests while no write is in flight starts exactly
\* one write, of that snapshot.
C34_SnapshotInsideMutation ==
  [][/\ (Mutates /\ SaveCalled) =>
          /\ Newest.by = last'.op
          /\ Newest.snapshot = SnapshotOf(cache', now)
     /\ (Mutates /\ SaveCalled /\ ~inflight.active) =>
          /\ Newest.outcome = "writing"
          /\ Writing = {}
          /\ inflight' = [active |-> TRUE,
                          text |-> FileOf(Newest.snapshot).text,
                          save |-> Len(saves')]
    ]_vars

\* The step constructs an adapter at a time not before now from a file
\* that holds the export of the map as it is now.
ImportsOwnExport ==
  /\ nOps' = nOps + 1
  /\ last'.op = "construct"
  /\ file = FileOf(createCacheBackup(cache, now))

\* C35: importing at time t2 the snapshot exported from the map at time
\* t <= t2 restores exactly the entries with t + remaining TTL > t2, each
\* with its value and with the TTL (t + remaining TTL) - t2.
C35_BackupRoundTrip ==
  [][ImportsOwnExport =>
       /\ last'.status = "ok"
       /\ DOMAIN cache' = {key \in DOMAIN cache : now + cache[key].ttl > now'}
       /\ \A key \in DOMAIN cache' :
            /\ cache'[key].value = cache[key].value
            /\ cache'[key].ttl = (now + cache[key].ttl) - now'
            /\ now' + cache'[key].ttl = now + cache[key].ttl
    ]_vars

\* C35 witness: of two entries exported at time 0 the one that expired at
\* 1000 is gone from the adapter constructed at 1000, and the one that
\* expires at 2000 is there with the TTL 1000.
C35_Witness ==
  /\ last.op = "construct"
  /\ now = 1000
  /\ file = FileOf((KeyK :> BackupEntry(defaultSerialize(JsString("x")), 1000))
                   @@ (KeyBK :> BackupEntry(defaultSerialize(JsString("y")), 2000)))
  /\ cache = (KeyBK :> [value |-> defaultSerialize(JsString("y")), ttl |-> 1000])

\* ---- Claims about producers that fail ----

\* The producer of the suspended call rejects in this step.
ProducerRejects ==
  /\ pending.op \in {"cached", "mcached"}
  /\ pending' = Idle
  /\ Len(last'.returned) = 0

\* The latest call failed because its producer rejected.
FailedOnProducer ==
  /\ last.op \in {"cached", "mcached"}
  /\ last.status = "error"
  /\ last.result = ProducerError

\* C36: when the producer of cached or mcached fails, the call fails with
\* the producer's error, issues no adapter write and leaves the engine as
\* it was, the missing keys absent; a cached or mcached that then asks for
\* one of those keys invokes its producer again.
C36_ProducerFailureStoresNothing ==
  [][/\ ProducerRejects =>
          /\ last'.status = "error"
          /\ last'.result = ProducerError
          /\ last'.calls = pending.calls
          /\ WriteCalls(last') = << >>
          /\ cache' = cache
          /\ \A i \in 1..Len(pending.cacheKeys) :
               pending.cacheKeys[i] \notin DOMAIN cache =>
                 pending.cacheKeys[i] \notin DOMAIN cache'
     /\ (FailedOnProducer /\ (Starts("cached") \/ Starts("mcached"))
           /\ last'.prefix = last.prefix
           /\ \E i \in 1..Len(last'.keys) :
                Namespaced(last'.prefix, last'.keys[i]) \notin DOMAIN cache) =>
          /\ last'.status = "pending"
          /\ Len(last'.produced) = 1
    ]_vars

\* C36 witness: an mcached over two keys, one of them stored before, failed
\* with the error of its producer after the one batched get, and the
\* engine holds the stored key only.
C36_Witness ==
  /\ last.op = "mcached"
  /\ last.status = "error"
  /\ last.result = ProducerError
  /\ Len(last.keys) = 2
  /\ Len(last.calls) = 1
  /\ last.produced = << <<DataItems[2]>> >>
  /\ pending = Idle
  /\ DOMAIN cache = {last.calls[1].keys[1]}

\* ---- Claims about the write of mcached ----

\* C37: an mcached call issues at most one adapter write, none before its
\* producer resolved and none when it fails; the write of a call that
\* succeeds is one batched set of exactly the storage keys of the positions
\* that missed in the call's batched get, in order, and every entry the
\* engine held before, the hits among them, keeps its value and its TTL.
C37_McachedWritesOnlyMisses ==
  [][/\ Starts("mcached") =>
          /\ WriteCalls(last') = << >>
          /\ cache' = cache
     /\ (Resumes("mcached") /\ last'.status = "error") =>
          /\ WriteCalls(last') = << >>
          /\ cache' = cache
     /\ (Resumes("mcached") /\ last'.status = "ok") =>
          /\ Len(WriteCalls(last')) = 1
          /\ WriteCalls(last')[1].m = "mset"
          /\ WriteCalls(last')[1].keys =
               [j \in 1..Len(MissedPositions) |-> Asked[MissedPositions[j]]]
          /\ \A key \in DOMAIN cache :
               /\ key \in DOMAIN cache'
               /\ cache'[key] = cache[key]
    ]_vars

\* C37 witness: an mcached over two keys with the TTL 1000 wrote the one
\* key that missed, and the key that was a hit still has the TTL of two
\* seconds it was stored with.
C37_Witness ==
  /\ last.op = "mcached"
  /\ last.status = "ok"
  /\ last.ttl = TtlNumber(1000)
  /\ Len(last.keys) = 2
  /\ Len(last.calls) = 2
  /\ last.calls[2].keys = <<last.calls[1].keys[2]>>
  /\ last.calls[1].keys[1] # last.calls[1].keys[2]
  /\ cache[last.calls[1].keys[1]].ttl = 2000
  /\ cache[last.calls[1].keys[2]].ttl = 1000

====
